---- MODULE Spec2Model ----
(***************************************************************************)
(* Model of the telegram-files gateway: pairing codes (src/src/pairing.ts), *)
(* session tokens, the path guard and the REST handlers of register.ts     *)
(* (src/unnamed/part_007, lines 493-1114), over an abstract POSIX file     *)
(* system with directories, regular files and symbolic links.             *)
(*                                                                         *)
(* A string is a sequence of one-character strings, so that prefix tests   *)
(* (String.startsWith) and the path functions of node:path are computed    *)
(* character by character and segment by segment, as the code does.        *)
(***************************************************************************)
EXTENDS Integers, Sequences, FiniteSets, TLC

\* null, and a thrown error, where a string is expected
Null == <<"null">>

(***************************************************************************)
(* Strings                                                                 *)
(***************************************************************************)
SEP == "/"

\* String.prototype.startsWith
StartsWith(s, pre) ==
    /\ Len(pre) <= Len(s)
    /\ \A i \in 1..Len(pre) : s[i] = pre[i]

\* String.prototype.includes for a single character
Includes(s, ch) == \E i \in 1..Len(s) : s[i] = ch

RECURSIVE SplitFrom(_, _, _)
\* the segments of s between separators, empty segments dropped;
\* i is the read position and cur the segment being collected
SplitFrom(s, i, cur) ==
    IF i > Len(s)
    THEN IF cur = <<>> THEN <<>> ELSE <<cur>>
    ELSE IF s[i] = SEP
         THEN IF cur = <<>>
              THEN SplitFrom(s, i + 1, <<>>)
              ELSE <<cur>> \o SplitFrom(s, i + 1, <<>>)
         ELSE SplitFrom(s, i + 1, Append(cur, s[i]))

Split(s) == SplitFrom(s, 1, <<>>)

RECURSIVE JoinSegs(_)
\* "/" + seg for every segment; the root is "/"
JoinSegs(segs) ==
    IF segs = <<>> THEN <<>>
    ELSE <<SEP>> \o Head(segs) \o JoinSegs(Tail(segs))

ToStr(segs) == IF segs = <<>> THEN <<SEP>> ELSE JoinSegs(segs)

DOT == <<".">>
DOTDOT == <<".", ".">>

RECURSIVE NormalizeSegs(_, _)
\* node:path normalizeString for an absolute path: "." is dropped and ".."
\* removes the segment before it (and is dropped at the root)
NormalizeSegs(segs, acc) ==
    IF segs = <<>> THEN acc
    ELSE LET s == Head(segs) IN
         IF s = DOT THEN NormalizeSegs(Tail(segs), acc)
         ELSE IF s = DOTDOT
              THEN NormalizeSegs(Tail(segs),
                       IF acc = <<>> THEN acc ELSE SubSeq(acc, 1, Len(acc) - 1))
              ELSE NormalizeSegs(Tail(segs), Append(acc, s))

\* process.cwd()
Cwd == <<SEP>>

\* path.resolve(p): absolute, normalized, no trailing separator
pathResolve(p) ==
    IF p # <<>> /\ p[1] = SEP
    THEN ToStr(NormalizeSegs(Split(p), <<>>))
    ELSE ToStr(NormalizeSegs(Split(Cwd) \o Split(p), <<>>))

\* path.dirname of a normalized absolute path
pathDirname(p) ==
    LET segs == Split(p) IN
    IF segs = <<>> THEN <<SEP>> ELSE ToStr(SubSeq(segs, 1, Len(segs) - 1))

\* path.basename of a normalized absolute path
pathBasename(p) ==
    LET segs == Split(p) IN
    IF segs = <<>> THEN <<>> ELSE segs[Len(segs)]

\* path.join(a, b) = normalize(a + "/" + b)
pathJoin(a, b) == ToStr(NormalizeSegs(Split(a \o <<SEP>> \o b), <<>>))

(***************************************************************************)
(* The file system the gateway runs on: a function from the canonical path *)
(* of every existing node to the node.  A volume that is not there (a      *)
(* missing drive) is the empty function: not even the root resolves.       *)
(***************************************************************************)
Root == <<SEP>>

DirNode == [kind |-> "dir", target |-> <<>>, data |-> <<>>]
FileNode(d) == [kind |-> "file", target |-> <<>>, data |-> d]
LinkNode(t) == [kind |-> "link", target |-> t, data |-> <<>>]

\* the path of entry seg of the directory dir
Child(dir, seg) == IF dir = Root THEN <<SEP>> \o seg ELSE dir \o <<SEP>> \o seg

\* true iff p is below dir, segment by segment
IsBelow(p, dir) ==
    LET ps == Split(p)
        ds == Split(dir)
    IN  Len(ps) > Len(ds) /\ SubSeq(ps, 1, Len(ds)) = ds

\* how many symbolic links one resolution may follow before it gives up
\* (ELOOP): one more than the links there are, which no resolution of the
\* model's paths that comes to an end exceeds
LinkFuel(f) == Cardinality({ p \in DOMAIN f : f[p].kind = "link" }) + 1

RECURSIVE Walk(_, _, _, _, _)
\* Path resolution of the operating system.  cur is the canonical path
\* reached so far, rest the segments still to resolve.  Symbolic links are
\* followed; with create, a missing last segment resolves to the place where
\* the node would be created, and a dangling link in last position resolves
\* to its target.  Null is ENOENT, ENOTDIR or ELOOP.
Walk(f, cur, rest, fuel, create) ==
    IF cur \notin DOMAIN f THEN Null
    ELSE IF rest = <<>> THEN cur
    ELSE IF f[cur].kind # "dir" THEN Null
    ELSE LET nxt == Child(cur, Head(rest)) IN
         IF nxt \notin DOMAIN f
         THEN IF create /\ Len(rest) = 1 THEN nxt ELSE Null
         ELSE IF f[nxt].kind = "link"
              THEN IF fuel = 0 THEN Null
                   ELSE Walk(f, Root, Split(f[nxt].target) \o Tail(rest),
                             fuel - 1, create)
              ELSE Walk(f, nxt, Tail(rest), fuel, create)

\* fs.realpath(p): the canonical path of an existing node, or Null (it throws)
realpath(f, p) == Walk(f, Root, Split(p), LinkFuel(f), FALSE)

\* where open(p, O_CREAT) lands: an existing node or the node it creates
landing(f, p) == Walk(f, Root, Split(p), LinkFuel(f), TRUE)

\* the canonical path of the directory entry p names, its last segment not
\* followed (lstat, unlink, mkdir): Null when the parent does not resolve
entryOf(f, p) ==
    IF Split(p) = <<>> THEN IF Root \in DOMAIN f THEN Root ELSE Null
    ELSE LET par == realpath(f, pathDirname(p)) IN
         IF par = Null THEN Null
         ELSE IF f[par].kind # "dir" THEN Null
         ELSE Child(par, pathBasename(p))

NoNode == [kind |-> "none", target |-> <<>>, data |-> <<>>]

\* fs.stat(p): the node p resolves to, or NoNode (it throws)
stat(f, p) == LET r == realpath(f, p) IN IF r = Null THEN NoNode ELSE f[r]

\* the names in directory dir (a canonical path)
childNames(f, dir) ==
    { pathBasename(q) : q \in { q \in DOMAIN f : q # Root /\ pathDirname(q) = dir } }

\* File data is a sequence of bytes.  Two of them stand for runs of the
\* byte "a": Page for 512 of them, MiB for 1024 * 1024.
Page == "Page"
MiB == "MiB"
unitSize(b) == IF b = MiB THEN 1024 * 1024 ELSE IF b = Page THEN 512 ELSE 1

RECURSIVE byteLength(_)
\* the number of bytes of data (stat.size, Buffer.length)
byteLength(data) ==
    IF data = <<>> THEN 0 ELSE unitSize(Head(data)) + byteLength(Tail(data))

\* Characters of a string: the ASCII ones take one byte; EAcute takes two;
\* LoneSurrogate is half of a surrogate pair, which UTF-8 cannot encode;
\* Replacement is U+FFFD.  Page and MiB stand for runs of "a" as above.
EAcute == "e-acute"
LoneSurrogate == "lone-surrogate"
Replacement == "U+FFFD"

RECURSIVE utf8Encode(_)
\* Buffer.from(str, "utf-8"), as fs.writeFile(path, str, "utf-8") applies it
utf8Encode(str) ==
    IF str = <<>> THEN <<>>
    ELSE (IF Head(str) = EAcute THEN <<"0xC3", "0xA9">>
          ELSE IF Head(str) \in {LoneSurrogate, Replacement}
               THEN <<"0xEF", "0xBF", "0xBD">>
          ELSE <<Head(str)>>) \o utf8Encode(Tail(str))

RECURSIVE utf8Decode(_)
\* buffer.toString("utf-8"), as fs.readFile(path, "utf-8") applies it
utf8Decode(data) ==
    IF data = <<>> THEN <<>>
    ELSE IF Len(data) >= 2 /\ SubSeq(data, 1, 2) = <<"0xC3", "0xA9">>
         THEN <<EAcute>> \o utf8Decode(SubSeq(data, 3, Len(data)))
    ELSE IF Len(data) >= 3 /\ SubSeq(data, 1, 3) = <<"0xEF", "0xBF", "0xBD">>
         THEN <<Replacement>> \o utf8Decode(SubSeq(data, 4, Len(data)))
    ELSE IF Head(data) \in {"0xC3", "0xA9", "0xEF", "0xBF", "0xBD"}
         THEN <<Replacement>> \o utf8Decode(Tail(data))
    ELSE <<Head(data)>> \o utf8Decode(Tail(data))

\* the outcome of a mutating call: it threw, or it left the file system fs
\* after touching the canonical paths in hit
Threw(f) == [ok |-> FALSE, fs |-> f, hit |-> {}]
Did(f, h) == [ok |-> TRUE, fs |-> f, hit |-> h]

RECURSIVE mkdirp(_, _, _, _)
\* fs.mkdir(p, {recursive: true}).  cur is the canonical directory reached,
\* rest the segments still to create or enter, made the directories created.
\* It throws when a segment is a file or a link that leads to no directory.
mkdirp(f, cur, rest, made) ==
    IF cur \notin DOMAIN f THEN Threw(f)
    ELSE IF f[cur].kind # "dir" THEN Threw(f)
    ELSE IF rest = <<>> THEN Did(f, made)
    ELSE LET nxt == Child(cur, Head(rest)) IN
         IF nxt \notin DOMAIN f
         THEN mkdirp((nxt :> DirNode) @@ f, nxt, Tail(rest), made \cup {nxt})
         ELSE IF f[nxt].kind = "link"
              THEN LET t == realpath(f, nxt) IN
                   IF t = Null THEN Threw(f)
                   ELSE mkdirp(f, t, Tail(rest), made)
              ELSE mkdirp(f, nxt, Tail(rest), made)

fsMkdir(f, p) ==
    LET r == mkdirp(f, Root, Split(p), {}) IN IF r.ok THEN r ELSE Threw(f)

\* fs.writeFile(p, data): creates or truncates the file p lands on; it throws
\* when there is no parent directory or the target is a directory
fsWriteFile(f, p, d) ==
    LET t == landing(f, p) IN
    IF t = Null THEN Threw(f)
    ELSE IF t \in DOMAIN f /\ f[t].kind # "file" THEN Threw(f)
    ELSE Did([q \in (DOMAIN f) \cup {t} |-> IF q = t THEN FileNode(d) ELSE f[q]],
             {t})

RECURSIVE dropBytes(_, _)
\* data without its first n bytes; a run that is cut is written as a single "a"
dropBytes(data, n) ==
    IF data = <<>> \/ n <= 0 THEN data
    ELSE IF unitSize(Head(data)) <= n
         THEN dropBytes(Tail(data), n - unitSize(Head(data)))
         ELSE <<"a">> \o Tail(data)

\* the first half of fs.writeFile(p, data): open(p, "w") creates or truncates
\* the file p lands on; fd is the canonical path of the file opened
fsOpenTrunc(f, p) ==
    LET w == fsWriteFile(f, p, <<>>) IN
    IF w.ok THEN [ok |-> TRUE, fs |-> w.fs, fd |-> landing(f, p)]
    ELSE [ok |-> FALSE, fs |-> f, fd |-> Null]

\* the second half of fs.writeFile(p, data): the bytes are written through
\* the descriptor from offset 0 on, over what the file holds by then
fsWriteFd(f, fd, d) ==
    IF fd \notin DOMAIN f THEN f
    ELSE [f EXCEPT ![fd] = FileNode(d \o dropBytes(f[fd].data, byteLength(d)))]

\* fs.rm(p, {recursive: true}): removes the entry p names (a link itself, not
\* its target) with everything below it; it throws when there is none (ENOENT)
fsRm(f, p) ==
    LET t == entryOf(f, p) IN
    IF t = Null \/ t = Root THEN Threw(f)
    ELSE IF t \notin DOMAIN f THEN Threw(f)
    ELSE Did([q \in { q \in DOMAIN f : q # t /\ ~IsBelow(q, t) } |-> f[q]],
             { q \in DOMAIN f : q = t \/ IsBelow(q, t) })

(***************************************************************************)
(* Path guard (register.ts)                                                *)
(***************************************************************************)
NUL == "NUL"

\* os.homedir()
HomeDir == <<SEP, "d">>

RECURSIVE safePathLoop(_, _, _)
\* the while loop of safePath: current climbs until a parent resolves
safePathLoop(f, resolved, current) ==
    IF current = pathDirname(current) THEN resolved
    ELSE LET parent == pathDirname(current)
             realParent == realpath(f, parent)
         IN  IF realParent # Null
             THEN pathJoin(realParent, pathBasename(current))
             ELSE safePathLoop(f, resolved, parent)

safePath(f, rawPath) ==
    IF rawPath = <<>> \/ Includes(rawPath, NUL) THEN Null
    ELSE LET resolved == pathResolve(rawPath)
             real == realpath(f, resolved)
         IN  IF real # Null THEN real ELSE safePathLoop(f, resolved, resolved)

\* the allow-list a check runs over: the home directory when none is configured
EffectivePaths(allowed) == IF Len(allowed) > 0 THEN allowed ELSE <<HomeDir>>

\* fs.realpath(path.resolve(base)), and path.resolve(base) when that throws
ResolvedBase(f, base) ==
    LET real == realpath(f, pathResolve(base)) IN
    IF real # Null THEN real ELSE pathResolve(base)

isPathAllowed(f, resolvedPath, allowed) ==
    \E i \in 1..Len(EffectivePaths(allowed)) :
        LET resolvedBase == ResolvedBase(f, EffectivePaths(allowed)[i]) IN
        \/ resolvedPath = resolvedBase
        \/ StartsWith(resolvedPath, resolvedBase \o <<SEP>>)

\* isAllowedRoot that compares with path.resolve(base), links not resolved
isAllowedRoot_lexical(f, resolvedPath, allowed) ==
    \E i \in 1..Len(EffectivePaths(allowed)) :
        resolvedPath = pathResolve(EffectivePaths(allowed)[i])

isAllowedRoot(f, resolvedPath, allowed) ==
    \E i \in 1..Len(EffectivePaths(allowed)) :
        resolvedPath = ResolvedBase(f, EffectivePaths(allowed)[i])

(***************************************************************************)
(* Pairing codes (pairing.ts).  The store is a Map: a sequence of entries  *)
(* in insertion order.  Codes and session tokens are random; the model     *)
(* numbers them in the order they are drawn.                               *)
(***************************************************************************)
\* null, where a seed or a token is expected
None == "none"

TTL_MS == 5 * 60 * 1000

evictExpired(st, t) == SelectSeq(st, LAMBDA e : ~(e.expiresAt <= t))

\* the number of pairing codes the preparation notes give as the limit of
\* the store
MAX_PAIRING_CODES == 100
MAX_FILENAME_LENGTH == 255

\* the number of expired session tokens the preparation notes let one call
\* of checkAuth remove
PURGE_LIMIT == 20

\* the store after createPairingCode(gatewayToken) has drawn code
createPairingCode(st, code, gatewayToken, t) ==
    Append(evictExpired(st, t),
           [code |-> code, token |-> gatewayToken, expiresAt |-> t + TTL_MS])

\* exchangePairingCode that leaves the entry in the store
exchangePairingCode_noDelete(st, code, t) ==
    LET live == evictExpired(st, t) IN
    IF \E i \in 1..Len(live) : live[i].code = code
    THEN LET i == CHOOSE i \in 1..Len(live) : live[i].code = code IN
         [store |-> live, ret |-> live[i].token]
    ELSE [store |-> live, ret |-> None]

\* exchangePairingCode that does not call evictExpired
exchangePairingCode_noEvict(st, code, t) ==
    IF \E i \in 1..Len(st) : st[i].code = code
    THEN LET i == CHOOSE i \in 1..Len(st) : st[i].code = code IN
         [store |-> SelectSeq(st, LAMBDA e : e.code # code),
          ret |-> st[i].token]
    ELSE [store |-> st, ret |-> None]

\* exchangePairingCode that looks the code up before it evicts
exchangePairingCode_lateEvict(st, code, t) ==
    IF \E i \in 1..Len(st) : st[i].code = code
    THEN LET i == CHOOSE i \in 1..Len(st) : st[i].code = code IN
         [store |-> evictExpired(SelectSeq(st, LAMBDA e : e.code # code), t),
          ret |-> st[i].token]
    ELSE [store |-> evictExpired(st, t), ret |-> None]

\* exchangePairingCode(code): the store it leaves and the value it returns
exchangePairingCode(st, code, t) ==
    LET live == evictExpired(st, t) IN
    IF \E i \in 1..Len(live) : live[i].code = code
    THEN LET i == CHOOSE i \in 1..Len(live) : live[i].code = code IN
         [store |-> SelectSeq(live, LAMBDA e : e.code # code),
          ret |-> live[i].token]
    ELSE [store |-> live, ret |-> None]

(***************************************************************************)
(* Session tokens (register.ts)                                            *)
(***************************************************************************)
MAX_ACTIVE_TOKENS == 200
TOKEN_TTL_MS == 24 * 60 * 60 * 1000

\* credentials a client may present besides the tokens the gateway issued:
\* the empty string, and a well-formed token the gateway never issued
EmptyCred == 0
ForgedCred == 0 - 1

NoHeader == [scheme |-> "none", cred |-> EmptyCred]
Bearer(c) == [scheme |-> "Bearer", cred |-> c]

extractBearerToken(hdr) == IF hdr.scheme = "Bearer" THEN hdr.cred ELSE EmptyCred

HasToken(act, tok) == \E i \in 1..Len(act) : act[i].token = tok
ExpiryOf(act, tok) == act[CHOOSE i \in 1..Len(act) : act[i].token = tok].expiresAt
DeleteToken(act, tok) == SelectSeq(act, LAMBDA e : e.token # tok)

\* checkAuth that lets a token pass that is not in the map
checkAuth_noLookup(act, hdr, t) ==
    LET token == extractBearerToken(hdr) IN
    IF token = EmptyCred THEN [ok |-> FALSE, tokens |-> act]
    ELSE IF HasToken(act, token) /\ t > ExpiryOf(act, token)
         THEN [ok |-> FALSE, tokens |-> DeleteToken(act, token)]
         ELSE [ok |-> TRUE, tokens |-> act]

\* checkAuth that does not look at expiresAt
checkAuth_noExpiry(act, hdr, t) ==
    LET token == extractBearerToken(hdr) IN
    IF token = EmptyCred THEN [ok |-> FALSE, tokens |-> act]
    ELSE IF ~HasToken(act, token) THEN [ok |-> FALSE, tokens |-> act]
    ELSE [ok |-> TRUE, tokens |-> act]

\* checkAuth(req): its verdict and the token map it leaves
checkAuth(act, hdr, t) ==
    LET token == extractBearerToken(hdr) IN
    IF token = EmptyCred THEN [ok |-> FALSE, tokens |-> act]
    ELSE IF ~HasToken(act, token) THEN [ok |-> FALSE, tokens |-> act]
    ELSE IF t > ExpiryOf(act, token)
         THEN [ok |-> FALSE, tokens |-> DeleteToken(act, token)]
         ELSE [ok |-> TRUE, tokens |-> act]

\* the eviction of /api/exchange gone wrong: at capacity the newest entry goes
evictOldest_newest(act) ==
    IF Len(act) >= MAX_ACTIVE_TOKENS THEN SubSeq(act, 1, Len(act) - 1) ELSE act

\* the eviction of /api/exchange: at capacity the first entry with the
\* smallest expiresAt goes
evictOldest(act) ==
    IF Len(act) >= MAX_ACTIVE_TOKENS
    THEN LET i == CHOOSE i \in 1..Len(act) :
                      /\ \A j \in 1..Len(act) : act[i].expiresAt <= act[j].expiresAt
                      /\ \A j \in 1..(i - 1) : act[j].expiresAt > act[i].expiresAt
         IN  [j \in 1..(Len(act) - 1) |-> IF j < i THEN act[j] ELSE act[j + 1]]
    ELSE act

\* the token map after /api/exchange has drawn sessionToken
issueToken(act, sessionToken, t) ==
    Append(evictOldest(act), [token |-> sessionToken, expiresAt |-> t + TOKEN_TTL_MS])

\* the hourly setInterval callback
cleanupTokens(act, t) == SelectSeq(act, LAMBDA e : ~(t > e.expiresAt))

(***************************************************************************)
(* Directory reads and the search walk (register.ts, searchFiles)          *)
(***************************************************************************)
\* the characters of the model's names, in code-point order
Alphabet ==
    <<" ", "(", ")", ",", ".", "2", "F", "d", "e", "f", "k", "l", "n", "p", "r", "s",
      "u", "x", "y", "z">>

CharRank(c) == CHOOSE i \in 1..Len(Alphabet) : Alphabet[i] = c

RECURSIVE NameLess(_, _)
NameLess(a, b) ==
    IF a = <<>> THEN b # <<>>
    ELSE IF b = <<>> THEN FALSE
    ELSE IF Head(a) = Head(b) THEN NameLess(Tail(a), Tail(b))
    ELSE CharRank(Head(a)) < CharRank(Head(b))

\* the names of S in ascending order: the name with i - 1 names before it
\* comes i-th
SortNames(S) ==
    LET before == { <<x, Cardinality({ y \in S : NameLess(y, x) })>> : x \in S }
    IN  [i \in 1..Cardinality(S) |-> (CHOOSE pr \in before : pr[2] = i - 1)[1]]

\* fs.readdir(dir, {withFileTypes: true}) of a canonical directory: one
\* Dirent per child, carrying the type of the entry itself
readdir(f, dir) ==
    LET names == SortNames(childNames(f, dir)) IN
    [i \in 1..Len(names) |->
        [name |-> names[i], kind |-> f[Child(dir, names[i])].kind]]

\* toLowerCase that leaves the string as it is
toLowerCase_asIs(str) == str

\* String.prototype.toLowerCase, one character
LowerChar(c) == IF c = "F" THEN "f" ELSE c
toLowerCase(str) == [i \in 1..Len(str) |-> LowerChar(str[i])]

\* String.prototype.includes for a substring
IncludesStr(str, sub) ==
    \E i \in 0..(Len(str) - Len(sub)) :
        \A j \in 1..Len(sub) : str[i + j] = sub[j]

maxResults == 50
maxDepth == 5

\* Directories the process may not use as it likes: on DeniedDir it has no
\* read permission, so fs.readdir of it throws EACCES; on SealedDir it has no
\* search permission, so no path through it resolves, while its entries can
\* be read.
DeniedDir == [kind |-> "dir", target |-> <<>>, data |-> <<"no read">>]
SealedDir == [kind |-> "dir", target |-> <<>>, data |-> <<"no search">>]

\* fs.realpath(dir) in walk: null where it throws, as it does for a path
\* that leads through a sealed directory
walkRealpath(f, dir) ==
    LET real == realpath(f, dir) IN
    IF real = Null THEN Null
    ELSE IF \E a \in DOMAIN f : f[a] = SealedDir /\ a # real /\ IsBelow(real, a)
         THEN Null
         ELSE real

\* a readdir that never throws
readdirThrows_never(f, realDir) == FALSE

\* fs.readdir(dir) in walk throws: dir is no directory, or may not be read
readdirThrows(f, realDir) == f[realDir].kind # "dir" \/ f[realDir] = DeniedDir

RECURSIVE walk(_, _, _, _, _)
RECURSIVE walkEntry(_, _, _, _, _, _)
RECURSIVE walkEntries(_, _, _, _, _, _, _, _)
\* walk(dir, depth) of searchFiles.  st carries results, visited and, for
\* the record, read: the canonical directories whose entries were read, and
\* trace: the same directories, one entry per fs.readdir call, in order.
walk(f, lowerQuery, dir, depth, st) ==
    IF depth > maxDepth \/ Len(st.results) >= maxResults THEN st
    ELSE LET realDir == walkRealpath(f, dir) IN
         IF realDir = Null THEN st
         ELSE IF realDir \in st.visited THEN st
         ELSE LET st1 == [st EXCEPT !.visited = @ \cup {realDir}] IN
              IF readdirThrows(f, realDir) THEN st1
              ELSE LET entries == readdir(f, realDir) IN
                   walkEntries(f, lowerQuery, dir, depth, entries, 1, Len(entries),
                               [st1 EXCEPT !.read = @ \cup {realDir},
                                           !.trace = Append(@, realDir)])

\* the body of the for loop of walk after its check of results.length, for
\* entry e
walkEntry(f, lowerQuery, dir, depth, e, st) ==
    IF StartsWith(e.name, <<".">>) THEN st
    ELSE LET full == pathJoin(dir, e.name)
             st1 == IF IncludesStr(toLowerCase(e.name), lowerQuery)
                    THEN [st EXCEPT !.results = Append(@,
                             [path |-> full, name |-> e.name,
                              isDir |-> e.kind = "dir"])]
                    ELSE st
         IN  IF e.kind = "dir"
             THEN walk(f, lowerQuery, full, depth + 1, st1)
             ELSE st1

\* the for loop of walk with a check of results.length that never returns
walkEntries_noCap(f, lowerQuery, dir, depth, entries, lo, hi, st) ==
    IF lo > hi THEN st
    ELSE IF lo = hi THEN walkEntry(f, lowerQuery, dir, depth, entries[lo], st)
    ELSE LET mid == (lo + hi) \div 2
             st1 == walkEntries(f, lowerQuery, dir, depth, entries, lo, mid, st)
         IN  IF Len(st1.results) < 0 THEN st1
             ELSE walkEntries(f, lowerQuery, dir, depth, entries, mid + 1, hi, st1)

\* the for loop of walk over entries lo..hi, in order: the first half of the
\* range, then, unless results is full by then (the loop returns), the
\* second half.  walk has checked results.length before the first entry.
walkEntries(f, lowerQuery, dir, depth, entries, lo, hi, st) ==
    IF lo > hi THEN st
    ELSE IF lo = hi THEN walkEntry(f, lowerQuery, dir, depth, entries[lo], st)
    ELSE LET mid == (lo + hi) \div 2
             st1 == walkEntries(f, lowerQuery, dir, depth, entries, lo, mid, st)
         IN  IF Len(st1.results) >= maxResults THEN st1
             ELSE walkEntries(f, lowerQuery, dir, depth, entries, mid + 1, hi, st1)

searchFiles(f, basePath, query) ==
    walk(f, toLowerCase(query), basePath, 0,
         [results |-> <<>>, visited |-> {}, read |-> {}, trace |-> <<>>])

\* searchFiles one await at a time.  An invocation owns st, the results and
\* the visited set that searchFiles declares, and frames, the calls of walk
\* that have not returned, innermost last.
FreshWalk == [results |-> <<>>, visited |-> {}, read |-> {}, trace |-> <<>>]
Frame(dir, depth) ==
    [dir |-> dir, depth |-> depth, stage |-> "enter", entries |-> <<>>, i |-> 0]
Pop(frames) == SubSeq(frames, 1, Len(frames) - 1)

\* Dirent.isDirectory() that also holds of a link
isDirectory_orLink(e) == e.kind # "file"

\* a depth check that lets every depth pass
tooDeep_never(depth) == FALSE

\* depth > maxDepth, the first check of walk
tooDeep(depth) == depth > maxDepth

\* Dirent.isDirectory(): the entry itself is a directory, not a link to one
isDirectory(e) == e.kind = "dir"

\* the next step of the innermost call of walk: at "enter" its checks, its
\* fs.realpath and its fs.readdir; at "loop" one turn of its for loop
walkStep(f, lowerQuery, w) ==
    LET top == w.frames[Len(w.frames)]
        st  == w.st
    IN
    IF top.stage = "enter"
    THEN IF tooDeep(top.depth) \/ Len(st.results) >= maxResults
         THEN [w EXCEPT !.frames = Pop(@)]
         ELSE LET realDir == walkRealpath(f, top.dir) IN
              IF realDir = Null THEN [w EXCEPT !.frames = Pop(@)]
              ELSE IF realDir \in st.visited THEN [w EXCEPT !.frames = Pop(@)]
              ELSE IF readdirThrows(f, realDir)
              THEN [st |-> [st EXCEPT !.visited = @ \cup {realDir}],
                    frames |-> Pop(w.frames)]
              ELSE [st |-> [st EXCEPT !.visited = @ \cup {realDir},
                                      !.read = @ \cup {realDir},
                                      !.trace = Append(@, realDir)],
                    frames |-> [w.frames EXCEPT ![Len(w.frames)] =
                                  [top EXCEPT !.stage = "loop",
                                              !.entries = readdir(f, realDir),
                                              !.i = 1]]]
    ELSE IF top.i > Len(top.entries) \/ Len(st.results) >= maxResults
         THEN [w EXCEPT !.frames = Pop(@)]
         ELSE LET e == top.entries[top.i]
                  full == pathJoin(top.dir, e.name)
                  next == [w.frames EXCEPT ![Len(w.frames)] = [top EXCEPT !.i = @ + 1]]
              IN  IF StartsWith(e.name, <<".">>) THEN [w EXCEPT !.frames = next]
                  ELSE [st |-> IF IncludesStr(toLowerCase(e.name), lowerQuery)
                               THEN [st EXCEPT !.results = Append(@,
                                        [path |-> full, name |-> e.name,
                                         isDir |-> isDirectory(e)])]
                               ELSE st,
                        frames |-> IF isDirectory(e)
                                   THEN Append(next, Frame(full, top.depth + 1))
                                   ELSE next]

(***************************************************************************)
(* The gateway: state                                                      *)
(***************************************************************************)
VARIABLES
    fs,             \* the file system
    allowedPaths,   \* pluginConfig.allowedPaths, fixed at registerAll
    externalUrl,    \* pluginConfig.externalUrl, fixed at registerAll
    corsOrigin,     \* registerAll's corsOrigin, sent with every response
    wsClient,       \* the web app's GatewayWsClient
    fileList,       \* the web app's file-list view
    store,          \* pairing.ts store
    activeTokens,   \* register.ts activeTokens
    now,            \* Date.now()
    ticks,          \* how often the clock has advanced
    codeLog,        \* history: per code drawn, its seed, its issue time, whether a
                    \* redemption was tried and how many redemptions returned the seed
    tokenLog,       \* history: per session token drawn, when it was issued
    reqs,           \* the requests in flight, one per connection slot
    resp            \* the response the last step sent, NoResp when it sent none

vars == <<fs, allowedPaths, externalUrl, corsOrigin, wsClient, fileList, store, activeTokens, now, ticks, codeLog, tokenLog,
          reqs, resp>>

\* bounds of the model
MaxReqs == 1
MaxBodyReqs == 1
MaxErrorReqs == 1
MaxWalkers == 2
MaxCoreReqs == 2
MaxFileReqs == 2
MaxChunks == 3
MaxExchanges == 2
MaxCodes == 1
MaxTicks == 2

\* the connection slots of the run
Slots == DOMAIN reqs

\* paths of the model's file system
pD == <<SEP, "d">>
pDS == <<SEP, "d", SEP, "s">>
pDSF == <<SEP, "d", SEP, "s", SEP, "f">>
pDL == <<SEP, "d", SEP, "l">>
pDK == <<SEP, "d", SEP, "k">>
pDN == <<SEP, "d", SEP, "n">>
pDNP == <<SEP, "d", SEP, "n", SEP, "p">>
pDNPF == <<SEP, "d", SEP, "n", SEP, "p", SEP, "f">>
pD2 == <<SEP, "d", "2">>
pE == <<SEP, "e">>
pEX == <<SEP, "e", SEP, "x">>
pEZ == <<SEP, "e", SEP, "z">>
pR == <<SEP, "r">>
pRQ == <<SEP, "r", SEP, "q">>
pDotDotE == <<SEP, "d", SEP, ".", ".", SEP, "e">>
pDLX == <<SEP, "d", SEP, "l", SEP, "x">>

\* /d is the directory to expose, with a subdirectory and a file; /d/l links
\* to the directory /e outside of it, /d/k links to /e/z, which does not
\* exist; /d2 is a sibling whose name starts with d; /r links to /d
BaseFs ==
    (Root :> DirNode) @@ (pD :> DirNode) @@ (pDS :> DirNode)
    @@ (pDSF :> FileNode(<<"o", "k">>))
    @@ (pDL :> LinkNode(pE)) @@ (pDK :> LinkNode(pEZ))
    @@ (pD2 :> DirNode) @@ (pE :> DirNode) @@ (pEX :> FileNode(<<"p">>))
    @@ (pR :> LinkNode(pD))

\* BaseFs with symbolic links that point back up the tree: /d/u links to
\* /d, /d/s/u links to t, /d/s/d is a directory whose entry r links to its
\* parent /d/s, and /d/s/z links to itself; /d/.f is a hidden file, /d/.s a
\* hidden directory with the file f in it, and /d/s/d/F a file whose name
\* is in upper case
pDU == <<SEP, "d", SEP, "u">>
pDSU == <<SEP, "d", SEP, "s", SEP, "u">>
pDSD == <<SEP, "d", SEP, "s", SEP, "d">>
pDSDR == <<SEP, "d", SEP, "s", SEP, "d", SEP, "r">>
pDSZ == <<SEP, "d", SEP, "s", SEP, "z">>
pDHF == <<SEP, "d", SEP, ".", "f">>
pDHS == <<SEP, "d", SEP, ".", "s">>
pDHSF == <<SEP, "d", SEP, ".", "s", SEP, "f">>
pDSDF == <<SEP, "d", SEP, "s", SEP, "d", SEP, "F">>
CycleFs(t) ==
    (pDU :> LinkNode(pD)) @@ (pDSU :> LinkNode(t)) @@ (pDSD :> DirNode)
    @@ (pDSDR :> LinkNode(pDS)) @@ (pDSZ :> LinkNode(pDSZ))
    @@ (pDHF :> FileNode(<<>>)) @@ (pDHS :> DirNode) @@ (pDHSF :> FileNode(<<>>))
    @@ (pDSDF :> FileNode(<<>>)) @@ BaseFs

\* where /d/s/u points: the root, the directory searched, its own parent,
\* a directory next to it, itself, a hidden directory, another link back, a
\* link to /d from outside, a directory outside
BackTargets == {Root, pD, pDS, pDSD, pDSU, pDHS, pDU, pR, pE}

\* CycleFs(/d) with WideCount files in /d/s/d whose names contain f
WideChars == <<"d", "e", "f", "k", "l", "n", "p", "s">>
WideCount == 52
WideName(i) ==
    <<"f", WideChars[((i - 1) \div Len(WideChars)) + 1],
           WideChars[((i - 1) % Len(WideChars)) + 1]>>
WideFs ==
    [p \in { Child(pDSD, WideName(i)) : i \in 1..WideCount } |-> FileNode(<<>>)]
    @@ CycleFs(pD)

\* the volume is not there
NoVolume == [q \in {} |-> DirNode]

\* the allow-lists of the runs: the directory, a link to it, the directory
\* with a root nested in it, and a root that does not exist yet
AllowLists == {<<pD>>, <<pR>>, <<pD, pDS>>, <<pDN>>}

Seeds == {"gwA", "gwB"}

IdleReq == [pc |-> "idle", op |-> "none", method |-> "", hdr |-> NoHeader, path |-> <<>>,
            name |-> <<>>, q |-> <<>>, content |-> <<>>, code |-> 0,
            resolved |-> Null, fd |-> Null, size |-> 0, chunks |-> <<>>,
            wire |-> <<>>, st |-> FreshWalk, frames |-> <<>>]

NoResp == [op |-> "none", method |-> "", status |-> 0, hdr |-> NoHeader, raw |-> <<>>,
           path |-> Null, data |-> <<>>, hit |-> {}, code |-> 0, seed |-> None,
           token |-> 0, first |-> FALSE, verdict |-> FALSE, error |-> "",
           size |-> 0, results |-> <<>>, trace |-> <<>>, detail |-> <<>>,
           cut |-> FALSE]

\* ---- the CORS origin ----------------------------------------------------

AsciiAlpha == {"F", "d", "e", "f", "h", "k", "l", "n", "p", "r", "s", "t", "u", "w",
               "x", "y", "z"}
AsciiDigits == <<"0", "1", "2", "3", "4", "5", "6", "7", "8", "9">>
IsDigit(c) == \E i \in 1..Len(AsciiDigits) : AsciiDigits[i] = c
DigitValue(c) == (CHOOSE i \in 1..Len(AsciiDigits) : AsciiDigits[i] = c) - 1

\* the index of the first character of str at or after from that is in set,
\* 0 when there is none
FirstOf(str, set, from) ==
    LET at == { i \in from..Len(str) : str[i] \in set } IN
    IF at = {} THEN 0 ELSE CHOOSE i \in at : \A j \in at : i <= j

\* a decimal string as a number, and a number as a decimal string
RECURSIVE parseDecimal(_)
parseDecimal(str) ==
    IF str = <<>> THEN 0
    ELSE 10 * parseDecimal(SubSeq(str, 1, Len(str) - 1)) + DigitValue(str[Len(str)])

RECURSIVE toDecimal(_)
toDecimal(n) ==
    IF n < 10 THEN <<AsciiDigits[n + 1]>>
    ELSE Append(toDecimal(n \div 10), AsciiDigits[(n % 10) + 1])

\* the schemes the URL standard calls special, with their default ports
SpecialSchemes == {<<"h", "t", "t", "p">>, <<"h", "t", "t", "p", "s">>,
                   <<"w", "s">>, <<"w", "s", "s">>, <<"f", "t", "p">>,
                   <<"f", "i", "l", "e">>}
defaultPort(scheme) ==
    IF scheme \in {<<"h", "t", "t", "p">>, <<"w", "s">>} THEN 80
    ELSE IF scheme \in {<<"h", "t", "t", "p", "s">>, <<"w", "s", "s">>} THEN 443
    ELSE IF scheme = <<"f", "t", "p">> THEN 21
    ELSE 0

\* the characters a host may not hold, of those that the model's strings hold
ForbiddenHost == {" ", "\\", "*"} \cup {"NUL"}

URLFailure == [ok |-> FALSE, scheme |-> <<>>, host |-> <<>>, port |-> 0]

\* new URL(input) without a base, for inputs that hold no credentials, no
\* percent-escapes and no host whose last label is a number: ok is FALSE
\* where the constructor throws. port 0 is the URL's null port.
parseURL(input) ==
    LET colon == FirstOf(input, {":"}, 1) IN
    IF colon < 2 THEN URLFailure
    ELSE IF input[1] \notin AsciiAlpha THEN URLFailure
    ELSE IF \E i \in 2..(colon - 1) :
              input[i] \notin AsciiAlpha /\ ~IsDigit(input[i])
                 /\ input[i] \notin {"+", "-", "."}
    THEN URLFailure
    ELSE
    LET scheme == toLowerCase(SubSeq(input, 1, colon - 1)) IN
    IF scheme \notin SpecialSchemes \/ scheme = <<"f", "i", "l", "e">>
    THEN [ok |-> TRUE, scheme |-> scheme, host |-> <<>>, port |-> 0]
    ELSE
    LET \* the slashes after the scheme are skipped, however many
        noSlash == { i \in (colon + 1)..Len(input) : input[i] \notin {SEP, "\\"} }
        from   == IF noSlash = {} THEN Len(input) + 1
                  ELSE CHOOSE i \in noSlash : \A j \in noSlash : i <= j
        stop   == FirstOf(input, {SEP, "\\", "?", "#"}, from)
        to     == IF stop = 0 THEN Len(input) ELSE stop - 1
        auth   == SubSeq(input, from, to)
        pc     == FirstOf(auth, {":"}, 1)
        host   == IF pc = 0 THEN auth ELSE SubSeq(auth, 1, pc - 1)
        digits == IF pc = 0 THEN <<>> ELSE SubSeq(auth, pc + 1, Len(auth))
    IN  IF host = <<>> THEN URLFailure
        ELSE IF \E i \in 1..Len(host) : host[i] \in ForbiddenHost THEN URLFailure
        ELSE IF \E i \in 1..Len(digits) : ~IsDigit(digits[i]) THEN URLFailure
        ELSE IF digits # <<>> /\ parseDecimal(digits) > 65535 THEN URLFailure
        ELSE [ok |-> TRUE, scheme |-> scheme, host |-> toLowerCase(host),
              port |-> IF digits = <<>> \/ parseDecimal(digits) = defaultPort(scheme)
                       THEN 0 ELSE parseDecimal(digits)]

\* the origin getter of a parsed URL
origin(u) ==
    IF u.scheme \notin SpecialSchemes \/ u.scheme = <<"f", "i", "l", "e">>
    THEN <<"n", "u", "l", "l">>
    ELSE u.scheme \o <<":", SEP, SEP>> \o u.host
            \o (IF u.port = 0 THEN <<>> ELSE <<":">> \o toDecimal(u.port))

\* registerAll: the CORS origin of the configured external URL; <<>> is the
\* URL that is not configured, for the empty string is as falsy as undefined
deriveCorsOrigin(url) ==
    IF url = <<>> THEN <<"*">>
    ELSE LET parsed == parseURL(url) IN
         IF parsed.ok THEN origin(parsed) ELSE url

\* ---- the web app: GatewayWsClient ----------------------------------------

RPC_TIMEOUT_MS == 15000
CONNECT_TIMEOUT_MS == 10000

\* new GatewayWsClient(token, wsUrl).  sockets holds the readyState of every
\* WebSocket the client has made, ws the index of the one it holds (0 for
\* null).  calls is the history of the promises made: those of call() and
\* those of the connect frames, with the id in the pending map (0 when none
\* was drawn), the state of the promise, what settled it, how often resolve
\* or reject was called on it, and its timer.  last is what the last step did.
NewClient ==
    [ws |-> 0, sockets |-> <<>>, nextId |-> 1, pending |-> {}, connected |-> FALSE,
     calls |-> <<>>, last |-> "none"]

NewCall(kind, id, armed, due) ==
    [kind |-> kind, id |-> id, state |-> "pending", by |-> "", settles |-> 0,
     timer |-> armed, due |-> due]

\* resolve or reject of the promise with the given id is called
settle(calls, id, state, by) ==
    [i \in DOMAIN calls |->
        IF calls[i].id # id THEN calls[i]
        ELSE [calls[i] EXCEPT !.settles = @ + 1,
                              !.state = IF calls[i].state = "pending" THEN state ELSE @,
                              !.by = IF calls[i].state = "pending" THEN by ELSE @]]

\* a pending map that holds every id
hasPending_always(pending, id) == TRUE

\* this.pending.has(id)
hasPending(pending, id) == id \in pending

\* connect(): a new WebSocket replaces the one held
connect(c) ==
    [c EXCEPT !.sockets = Append(@, "CONNECTING"), !.ws = Len(c.sockets) + 1,
              !.last = "connect"]

\* ws.onopen of socket k at time t: the connect frame goes out under a new id;
\* this.ws.send throws when the client no longer holds an open socket, and
\* then no timer is set
onopen(c, k, t) ==
    LET sent == c.ws # 0 /\ (c.ws = k \/ c.sockets[c.ws] = "OPEN") IN
    [c EXCEPT !.sockets[k] = "OPEN", !.nextId = @ + 1,
              !.pending = @ \cup {c.nextId},
              !.calls = Append(@, NewCall("connect", c.nextId, sent, t + CONNECT_TIMEOUT_MS)),
              !.last = "open"]

\* ws.onmessage with a response frame for id
onmessage(c, id, ok) ==
    IF hasPending(c.pending, id)
    THEN [c EXCEPT !.pending = @ \ {id},
                   !.calls = settle(@, id, IF ok THEN "fulfilled" ELSE "rejected", "res"),
                   !.connected = @ \/ (ok /\ \E i \in DOMAIN c.calls :
                                            c.calls[i].id = id /\ c.calls[i].kind = "connect"),
                   !.last = "message"]
    ELSE [c EXCEPT !.last = "ignored"]

RECURSIVE rejectAll(_, _, _)
\* p.reject for every entry of the pending map
rejectAll(calls, ids, by) ==
    IF ids = {} THEN calls
    ELSE LET id == CHOOSE x \in ids : TRUE IN
         rejectAll(settle(calls, id, "rejected", by), ids \ {id}, by)

\* ws.onclose of socket k
onclose(c, k) ==
    [c EXCEPT !.sockets[k] = "CLOSED", !.connected = FALSE,
              !.calls = rejectAll(@, c.pending, "close"), !.pending = {},
              !.last = "close"]

\* call(method, params) at time t
call(c, t) ==
    IF c.ws = 0 \/ c.sockets[c.ws] # "OPEN"
    THEN [c EXCEPT !.calls = Append(@, [NewCall("call", 0, FALSE, 0)
                                          EXCEPT !.state = "rejected", !.by = "Not connected",
                                                 !.settles = 1]),
                   !.last = "call"]
    ELSE [c EXCEPT !.nextId = @ + 1, !.pending = @ \cup {c.nextId},
                   !.calls = Append(@, NewCall("call", c.nextId, TRUE, t + RPC_TIMEOUT_MS)),
                   !.last = "call"]

\* the timer of promise i fires
timeout(c, i) ==
    LET id == c.calls[i].id IN
    IF hasPending(c.pending, id)
    THEN [c EXCEPT !.pending = @ \ {id},
                   !.calls = [settle(@, id, "rejected", "timeout") EXCEPT ![i].timer = FALSE],
                   !.last = "timeout"]
    ELSE [c EXCEPT !.calls[i].timer = FALSE, !.last = "timer"]

\* disconnect()
disconnect(c) ==
    IF c.ws = 0 THEN [c EXCEPT !.connected = FALSE, !.last = "disconnect"]
    ELSE [c EXCEPT !.sockets[c.ws] = IF @ \in {"CONNECTING", "OPEN"} THEN "CLOSING" ELSE @,
                   !.ws = 0, !.connected = FALSE, !.last = "disconnect"]

\* ---- the web app: the file list -----------------------------------------

\* what the element searchResults holds: nothing, the "Searching..." line,
\* the results of a search or its failure, with the generation and the query
\* of the search it belongs to
Shown(kind, gen, query) == [kind |-> kind, gen |-> gen, query |-> query]

\* renderFileList has run: searchTimeout is the query the debounce timer
\* will search for (Null when no timer waits), inflight the calls of
\* client.search not yet answered, display which of the file list and the
\* search results is visible, last what the last step did
NewList ==
    [searchGeneration |-> 0, searchTimeout |-> Null, inflight |-> {},
     searchResults |-> Shown("empty", 0, <<>>), display |-> "list", last |-> "none"]

\* a view that takes every answer
stale_never(thisGeneration, searchGeneration) == FALSE

\* thisGeneration !== searchGeneration
stale(thisGeneration, searchGeneration) == thisGeneration # searchGeneration

\* the "input" listener of searchInput with the trimmed value query
onInput(v, query) ==
    IF query = <<>>
    THEN [v EXCEPT !.searchTimeout = Null, !.display = "list", !.last = "input"]
    ELSE [v EXCEPT !.searchTimeout = query, !.last = "input"]

\* the debounce timer fires: the search starts
onSearchTimeout(v) ==
    LET thisGeneration == v.searchGeneration + 1 IN
    [v EXCEPT !.searchGeneration = thisGeneration,
              !.searchResults = Shown("loading", thisGeneration, v.searchTimeout),
              !.display = "search",
              !.inflight = @ \cup {[gen |-> thisGeneration, query |-> v.searchTimeout]},
              !.searchTimeout = Null,
              !.last = "search"]

\* client.search of the call c returns (ok) or throws
onSearchSettled(v, c, ok) ==
    IF stale(c.gen, v.searchGeneration)
    THEN [v EXCEPT !.inflight = @ \ {c}, !.last = "discarded"]
    ELSE [v EXCEPT !.inflight = @ \ {c},
                   !.searchResults = Shown(IF ok THEN "results" ELSE "error", c.gen, c.query),
                   !.last = "rendered"]

\* registerAll with pluginConfig.externalUrl = url
Configured(url) ==
    /\ externalUrl = url
    /\ corsOrigin = deriveCorsOrigin(url)

\* the external URLs an operator configures: none, the gateway's address in
\* several spellings, and strings that are no URL
ExternalUrls ==
    { <<>>,
      <<"h", "t", "t", "p", "s", ":", SEP, SEP, "x", ".", "y">>,
      <<"h", "t", "t", "p", "s", ":", SEP, SEP, "F", ".", "y", SEP, "p">>,
      <<"h", "t", "t", "p", "s", ":", SEP, SEP, "x", ".", "y", ":", "4", "4", "3">>,
      <<"h", "t", "t", "p", ":", SEP, SEP, "x", ".", "y", ":", "8", "0", "8", "0">>,
      <<"x", ".", "y">>,
      <<"x", ".", "y", ":", "8", "0">>,
      <<"*">>,
      <<"h", "t", "t", "p", "s", ":", SEP, SEP>>,
      <<"h", "t", "t", "p", "s", ":", SEP, SEP, "x", " ", "y">>,
      <<SEP, SEP, "x", ".", "y">>,
      <<"h", "t", "t", "p", "s", ":", SEP, SEP, "x", ".", "y", ":", "p">> }

\* The file gateway is observed from the moment one client has paired: at
\* time 0 the code drawn for gwA was redeemed and session token 1 issued.
Init ==
    /\ \/ fs = BaseFs /\ allowedPaths \in AllowLists
       \/ fs = NoVolume /\ allowedPaths = <<pD>>
    /\ Configured(<<>>)
    /\ wsClient = NewClient
    /\ fileList = NewList
    /\ store = <<>>
    /\ activeTokens = issueToken(<<>>, 1, 0)
    /\ now = 0
    /\ ticks = 0
    /\ codeLog = <<[seed |-> "gwA", at |-> 0, tried |-> TRUE, wins |-> 1]>>
    /\ tokenLog = <<0>>
    /\ reqs = [s \in 1..MaxReqs |-> IdleReq]
    /\ resp = NoResp

\* The same, with connection slots for handlers that interleave.
InitCore ==
    /\ \/ fs = BaseFs /\ allowedPaths \in AllowLists
       \/ fs = NoVolume /\ allowedPaths = <<pD>>
    /\ Configured(<<>>)
    /\ wsClient = NewClient
    /\ fileList = NewList
    /\ store = <<>>
    /\ activeTokens = issueToken(<<>>, 1, 0)
    /\ now = 0
    /\ ticks = 0
    /\ codeLog = <<[seed |-> "gwA", at |-> 0, tried |-> TRUE, wins |-> 1]>>
    /\ tokenLog = <<0>>
    /\ reqs = [s \in 1..MaxCoreReqs |-> IdleReq]
    /\ resp = NoResp

\* The gateway exposes /d of BaseFs to one paired client, whose requests
\* are taken one await at a time.
InitFile ==
    /\ fs = BaseFs
    /\ allowedPaths = <<pD>>
    /\ Configured(<<>>)
    /\ wsClient = NewClient
    /\ fileList = NewList
    /\ store = <<>>
    /\ activeTokens = issueToken(<<>>, 1, 0)
    /\ now = 0
    /\ ticks = 0
    /\ codeLog = <<[seed |-> "gwA", at |-> 0, tried |-> TRUE, wins |-> 1]>>
    /\ tokenLog = <<0>>
    /\ reqs = [s \in 1..MaxFileReqs |-> IdleReq]
    /\ resp = NoResp

\* The gateway exposes /d of BaseFs to one paired client that uploads.
InitUpload ==
    /\ fs = BaseFs
    /\ allowedPaths = <<pD>>
    /\ Configured(<<>>)
    /\ wsClient = NewClient
    /\ fileList = NewList
    /\ store = <<>>
    /\ activeTokens = issueToken(<<>>, 1, 0)
    /\ now = 0
    /\ ticks = 0
    /\ codeLog = <<[seed |-> "gwA", at |-> 0, tried |-> TRUE, wins |-> 1]>>
    /\ tokenLog = <<0>>
    /\ reqs = [s \in 1..MaxReqs |-> IdleReq]
    /\ resp = NoResp

\* The gateway exposes /d of BaseFs to one paired client whose request
\* bodies arrive chunk by chunk.
InitBody ==
    /\ fs = BaseFs
    /\ allowedPaths = <<pD>>
    /\ Configured(<<>>)
    /\ wsClient = NewClient
    /\ fileList = NewList
    /\ store = <<>>
    /\ activeTokens = issueToken(<<>>, 1, 0)
    /\ now = 0
    /\ ticks = 0
    /\ codeLog = <<[seed |-> "gwA", at |-> 0, tried |-> TRUE, wins |-> 1]>>
    /\ tokenLog = <<0>>
    /\ reqs = [s \in 1..MaxBodyReqs |-> IdleReq]
    /\ resp = NoResp

\* The gateway exposes /d of BaseFs to one paired client that asks for
\* what is not there.
InitError ==
    /\ fs = BaseFs
    /\ allowedPaths = <<pD>>
    /\ Configured(<<>>)
    /\ wsClient = NewClient
    /\ fileList = NewList
    /\ store = <<>>
    /\ activeTokens = issueToken(<<>>, 1, 0)
    /\ now = 0
    /\ ticks = 0
    /\ codeLog = <<[seed |-> "gwA", at |-> 0, tried |-> TRUE, wins |-> 1]>>
    /\ tokenLog = <<0>>
    /\ reqs = [s \in 1..MaxErrorReqs |-> IdleReq]
    /\ resp = NoResp

\* The gateway exposes /d of a tree with links, hidden entries and an
\* upper-case name to one paired client that lists directories.
InitList ==
    /\ fs \in { CycleFs(t) : t \in BackTargets }
    /\ allowedPaths = <<pD>>
    /\ Configured(<<>>)
    /\ wsClient = NewClient
    /\ fileList = NewList
    /\ store = <<>>
    /\ activeTokens = issueToken(<<>>, 1, 0)
    /\ now = 0
    /\ ticks = 0
    /\ codeLog = <<[seed |-> "gwA", at |-> 0, tried |-> TRUE, wins |-> 1]>>
    /\ tokenLog = <<0>>
    /\ reqs = [s \in 1..MaxReqs |-> IdleReq]
    /\ resp = NoResp

\* The gateway of an operator who configured any of the external URLs.
InitCors ==
    /\ fs = BaseFs
    /\ allowedPaths = <<pD>>
    /\ externalUrl \in ExternalUrls
    /\ corsOrigin = deriveCorsOrigin(externalUrl)
    /\ wsClient = NewClient
    /\ fileList = NewList
    /\ store = <<>>
    /\ activeTokens = issueToken(<<>>, 1, 0)
    /\ now = 0
    /\ ticks = 0
    /\ codeLog = <<[seed |-> "gwA", at |-> 0, tried |-> TRUE, wins |-> 1]>>
    /\ tokenLog = <<0>>
    /\ reqs = [s \in 1..MaxReqs |-> IdleReq]
    /\ resp = NoResp

\* BaseFs with the directory /d/s/d and a file in it
NestedFs == (pDSD :> DirNode) @@ (pDSDF :> FileNode(<<>>)) @@ BaseFs

\* allow-lists with one root inside another: next to it, and two levels down
NestedLists == {<<pD, pDS>>, <<pD, pDSD>>, <<pDS, pDSD>>, <<pD, pDSD, pE>>}

\* The gateway exposes roots that lie inside one another to one paired client
\* that deletes.
InitRoots ==
    /\ fs = NestedFs
    /\ allowedPaths \in NestedLists
    /\ Configured(<<>>)
    /\ wsClient = NewClient
    /\ fileList = NewList
    /\ store = <<>>
    /\ activeTokens = issueToken(<<>>, 1, 0)
    /\ now = 0
    /\ ticks = 0
    /\ codeLog = <<[seed |-> "gwA", at |-> 0, tried |-> TRUE, wins |-> 1]>>
    /\ tokenLog = <<0>>
    /\ reqs = [s \in 1..MaxReqs |-> IdleReq]
    /\ resp = NoResp

\* the allow-lists of an operator: none, a directory, a link to it, a
\* directory to be made, the same through the link, a dangling link, a link
\* to a directory elsewhere, the root of the file system, and two roots
HomeLists ==
    {<<>>, <<pD>>, <<pR>>, <<pDN>>, <<pRQ>>, <<pDK>>, <<pDL>>, <<Root>>, <<pDS, pD>>}

\* The gateway of an operator with any of these allow-lists, and one paired
\* client that asks for the start directory and lists it.
InitHome ==
    /\ fs \in {BaseFs, CycleFs(pD), NoVolume}
    /\ allowedPaths \in HomeLists
    /\ Configured(<<>>)
    /\ wsClient = NewClient
    /\ fileList = NewList
    /\ store = <<>>
    /\ activeTokens = issueToken(<<>>, 1, 0)
    /\ now = 0
    /\ ticks = 0
    /\ codeLog = <<[seed |-> "gwA", at |-> 0, tried |-> TRUE, wins |-> 1]>>
    /\ tokenLog = <<0>>
    /\ reqs = [s \in 1..MaxReqs |-> IdleReq]
    /\ resp = NoResp

\* The credential stores are observed from construction on.
InitAuth ==
    /\ fs = BaseFs
    /\ allowedPaths = <<pD>>
    /\ Configured(<<>>)
    /\ wsClient = NewClient
    /\ fileList = NewList
    /\ store = <<>>
    /\ activeTokens = <<>>
    /\ now = 0
    /\ ticks = 0
    /\ codeLog = <<>>
    /\ tokenLog = <<>>
    /\ reqs = [s \in 1..MaxExchanges |-> IdleReq]
    /\ resp = NoResp

\* The pairing store is observed holding MAX_PAIRING_CODES codes drawn for
\* gwA and not yet redeemed, the first drawn at time 0 and the others at
\* time 1; no session has been opened.
InitIssue ==
    /\ fs = BaseFs
    /\ allowedPaths = <<pD>>
    /\ Configured(<<>>)
    /\ wsClient = NewClient
    /\ fileList = NewList
    /\ store = [i \in 1..MAX_PAIRING_CODES |->
                   [code |-> i, token |-> "gwA",
                    expiresAt |-> (IF i = 1 THEN 0 ELSE 1) + TTL_MS]]
    /\ activeTokens = <<>>
    /\ now = 1
    /\ ticks = 0
    /\ codeLog = [i \in 1..MAX_PAIRING_CODES |->
                     [seed |-> "gwA", at |-> IF i = 1 THEN 0 ELSE 1,
                      tried |-> FALSE, wins |-> 0]]
    /\ tokenLog = <<>>
    /\ reqs = [s \in 1..MaxReqs |-> IdleReq]
    /\ resp = NoResp

\* The session store is observed at its capacity: MAX_ACTIVE_TOKENS codes
\* drawn for gwA were redeemed, the first at time 0 and the others at time 1.
InitCapacity ==
    /\ fs = BaseFs
    /\ allowedPaths = <<pD>>
    /\ Configured(<<>>)
    /\ wsClient = NewClient
    /\ fileList = NewList
    /\ store = <<>>
    /\ activeTokens = [i \in 1..MAX_ACTIVE_TOKENS |->
                          [token |-> i,
                           expiresAt |-> (IF i = 1 THEN 0 ELSE 1) + TOKEN_TTL_MS]]
    /\ now = 1
    /\ ticks = 0
    /\ codeLog = [i \in 1..MAX_ACTIVE_TOKENS |->
                     [seed |-> "gwA", at |-> IF i = 1 THEN 0 ELSE 1,
                      tried |-> TRUE, wins |-> 1]]
    /\ tokenLog = [i \in 1..MAX_ACTIVE_TOKENS |-> IF i = 1 THEN 0 ELSE 1]
    /\ reqs = [s \in 1..MaxReqs |-> IdleReq]
    /\ resp = NoResp

\* the file systems and allow-lists the path guard is applied to
GuardWorlds == {BaseFs, NoVolume}
GuardRoots == {pD, pR, pRQ, pDN, pD2, Root}

InitGuard ==
    /\ fs \in GuardWorlds
    /\ allowedPaths \in { <<b>> : b \in GuardRoots }
    /\ Configured(<<>>)
    /\ wsClient = NewClient
    /\ fileList = NewList
    /\ store = <<>>
    /\ activeTokens = <<>>
    /\ now = 0
    /\ ticks = 0
    /\ codeLog = <<>>
    /\ tokenLog = <<>>
    /\ reqs = [s \in 1..MaxReqs |-> IdleReq]
    /\ resp = NoResp

\* /e with a chain of directories d below it, DeepLevels deep, and a file f
\* in every one of them
DeepLevels == maxDepth + 2
RECURSIVE DeepDir(_)
DeepDir(n) == IF n = 0 THEN pE ELSE Child(DeepDir(n - 1), <<"d">>)
DeepFs ==
    [p \in { DeepDir(n) : n \in 1..DeepLevels } |-> DirNode]
    @@ [p \in { Child(DeepDir(n), <<"f">>) : n \in 0..DeepLevels } |-> FileNode(<<>>)]
    @@ BaseFs

\* WideFs with the directory /d/s/x, which readdir lists after /d/s/d, and a
\* file f in it
pDSX == <<SEP, "d", SEP, "s", SEP, "x">>
WideXFs == (pDSX :> DirNode) @@ (Child(pDSX, <<"f">>) :> FileNode(<<>>)) @@ WideFs

\* One caller of searchFiles on a tree deeper than maxDepth and on a tree
\* with more than maxResults matches.
InitDepth ==
    /\ fs \in {DeepFs, WideXFs}
    /\ allowedPaths = <<pD>>
    /\ Configured(<<>>)
    /\ wsClient = NewClient
    /\ fileList = NewList
    /\ store = <<>>
    /\ activeTokens = <<>>
    /\ now = 0
    /\ ticks = 0
    /\ codeLog = <<>>
    /\ tokenLog = <<>>
    /\ reqs = [s \in 1..MaxReqs |-> IdleReq]
    /\ resp = NoResp

\* BaseFs with /d/s/d, with the directory /d/s/x that may not be read and
\* the sealed directory /d/p, each with a file f in it, and with the
\* directory /d/p/d and its file f below the sealed one
pDP == <<SEP, "d", SEP, "p">>
pDPD == <<SEP, "d", SEP, "p", SEP, "d">>
SkipFs ==
    (pDSX :> DeniedDir) @@ (Child(pDSX, <<"f">>) :> FileNode(<<>>))
    @@ (pDP :> SealedDir) @@ (Child(pDP, <<"f">>) :> FileNode(<<>>))
    @@ (pDPD :> DirNode) @@ (Child(pDPD, <<"f">>) :> FileNode(<<>>))
    @@ (pDSD :> DirNode) @@ (pDSDF :> FileNode(<<>>)) @@ BaseFs

\* One caller of searchFiles on the tree with directories that cannot be
\* read or resolved.
InitSkip ==
    /\ fs = SkipFs
    /\ allowedPaths = <<pD>>
    /\ Configured(<<>>)
    /\ wsClient = NewClient
    /\ fileList = NewList
    /\ store = <<>>
    /\ activeTokens = <<>>
    /\ now = 0
    /\ ticks = 0
    /\ codeLog = <<>>
    /\ tokenLog = <<>>
    /\ reqs = [s \in 1..MaxReqs |-> IdleReq]
    /\ resp = NoResp

SearchWorlds == {WideFs} \cup { CycleFs(t) : t \in BackTargets }

\* Two callers of searchFiles on the tree with links back up.
InitWalk ==
    /\ fs = CycleFs(pD)
    /\ allowedPaths = <<pD>>
    /\ Configured(<<>>)
    /\ wsClient = NewClient
    /\ fileList = NewList
    /\ store = <<>>
    /\ activeTokens = <<>>
    /\ now = 0
    /\ ticks = 0
    /\ codeLog = <<>>
    /\ tokenLog = <<>>
    /\ reqs = [s \in 1..MaxWalkers |-> IdleReq]
    /\ resp = NoResp

InitSearch ==
    /\ fs \in SearchWorlds
    /\ allowedPaths = <<pD>>
    /\ Configured(<<>>)
    /\ wsClient = NewClient
    /\ fileList = NewList
    /\ store = <<>>
    /\ activeTokens = <<>>
    /\ now = 0
    /\ ticks = 0
    /\ codeLog = <<>>
    /\ tokenLog = <<>>
    /\ reqs = [s \in 1..MaxReqs |-> IdleReq]
    /\ resp = NoResp

(***************************************************************************)
(* The handlers of registerAll, as functions of the state they read        *)
(***************************************************************************)
\* the name checks of /api/upload without the one for "/"
validUploadName_noSeparator(fileName) ==
    /\ fileName # <<>>
    /\ ~Includes(fileName, "\\")
    /\ ~Includes(fileName, NUL)
    /\ fileName # DOTDOT
    /\ fileName # DOT

\* the name checks of /api/upload
validUploadName(fileName) ==
    /\ fileName # <<>>
    /\ ~Includes(fileName, SEP)
    /\ ~Includes(fileName, "\\")
    /\ ~Includes(fileName, NUL)
    /\ fileName # DOTDOT
    /\ fileName # DOT

Pass(p) == [status |-> 0, resolved |-> p, error |-> ""]
Deny(st, p, msg) == [status |-> st, resolved |-> p, error |-> msg]

\* a handler from the auth gate to its first file-system call: the status it
\* answers (0: none yet), the error in the body and the path it goes on with
guardOf(f, allowed, r) ==
    IF r.op \in {"ls", "search"}
    THEN LET dirPath == safePath(f, IF r.path = <<>> THEN <<SEP>> ELSE r.path) IN
         IF dirPath = Null \/ ~isPathAllowed(f, dirPath, allowed)
         THEN Deny(403, dirPath, "path not allowed")
         ELSE IF r.op = "search" /\ (Len(r.q) < 1 \/ Len(r.q) > 256)
              THEN Deny(400, dirPath, "query parameter 'q' required (1-256 chars)")
              ELSE Pass(dirPath)
    ELSE IF r.op = "read"
    THEN LET filePath == safePath(f, r.path) IN
         IF filePath = Null \/ ~isPathAllowed(f, filePath, allowed)
         THEN Deny(403, filePath, "path not allowed")
         ELSE Pass(filePath)
    ELSE IF r.op \in {"write", "mkdir", "delete"}
    THEN LET p == safePath(f, r.path) IN
         IF p = Null \/ (r.op = "write" /\ r.content = Null)
         THEN Deny(400, p, IF r.op = "write" THEN "path and content required"
                           ELSE IF r.op = "mkdir" THEN "path required"
                           ELSE "invalid path")
         ELSE IF ~isPathAllowed(f, p, allowed) THEN Deny(403, p, "path not allowed")
         ELSE IF r.op = "delete" /\ isAllowedRoot(f, p, allowed)
              THEN Deny(403, p, "cannot delete a root allowed path")
         ELSE Pass(p)
    ELSE \* upload
         LET targetDir == safePath(f, r.path) IN
         IF targetDir = Null \/ ~validUploadName(r.name)
         THEN Deny(400, targetDir, "dir and valid name required")
         ELSE LET filePath == safePath(f, pathJoin(targetDir, r.name)) IN
              IF filePath = Null \/ ~isPathAllowed(f, filePath, allowed)
              THEN Deny(403, filePath, "path not allowed")
              ELSE Pass(filePath)

MaxReadBytes == 2 * 1024 * 1024
maxUpload == 50 * 1024 * 1024

RECURSIVE bufferConcat(_)
\* Buffer.concat(chunks)
bufferConcat(chunks) ==
    IF chunks = <<>> THEN <<>> ELSE Head(chunks) \o bufferConcat(Tail(chunks))

\* the "data" listener of /api/upload that buffers every chunk
onData_noCeiling(r, chunk) ==
    [r EXCEPT !.size = @ + byteLength(chunk), !.chunks = Append(@, chunk)]

\* the "data" listener of /api/upload: the request after one more chunk
onData(r, chunk) ==
    LET size == r.size + byteLength(chunk) IN
    IF size > maxUpload
    THEN [r EXCEPT !.size = size, !.pc = "overflow"]
    ELSE [r EXCEPT !.size = size, !.chunks = Append(@, chunk)]

ProbeBytes == 512

RECURSIVE firstBytes(_, _)
\* the first n bytes of data; a run that does not fit is cut, and what is
\* left of it is written as a single "a"
firstBytes(data, n) ==
    IF data = <<>> \/ n <= 0 THEN <<>>
    ELSE IF unitSize(Head(data)) <= n
         THEN <<Head(data)>> \o firstBytes(Tail(data), n - unitSize(Head(data)))
         ELSE <<"a">>

\* a probe that takes the whole file
probe_whole(data) == data

\* fd.read(probe, 0, 512, 0) and probe.subarray(0, bytesRead)
probe(data) == firstBytes(data, ProbeBytes)

\* Buffer.includes(0)
includesZero(buf) == \E i \in 1..Len(buf) : buf[i] = NUL

\* err.message of a failed fs call, word by word and, in the path,
\* character by character: "ENOENT: no such file or directory, stat '/d/n'"
ErrMessage(code, text, syscall, p) ==
    <<code, ":", " ", text, ",", " ", syscall, " ", "'">> \o p \o <<"'">>

\* the message of the fs call that fails in the handler of request r
failureOf(r) ==
    IF r.op = "ls" THEN ErrMessage("ENOENT", "no such file or directory", "stat", r.resolved)
    ELSE IF r.op = "read"
    THEN ErrMessage("ENOENT", "no such file or directory", "stat", r.resolved)
    ELSE IF r.op = "delete"
    THEN ErrMessage("ENOENT", "no such file or directory", "lstat", r.resolved)
    ELSE IF r.op = "mkdir"
    THEN ErrMessage("ENOTDIR", "not a directory", "mkdir", r.resolved)
    ELSE ErrMessage("EISDIR", "illegal operation on a directory", "open", r.resolved)

\* the characters that end a match of /\/[^\s,)]+/
Stops == {" ", ",", ")"}

RECURSIVE matchEnd(_, _)
\* the last index of the longest run of characters outside Stops from i on
matchEnd(msg, i) ==
    IF i < Len(msg) /\ msg[i + 1] \notin Stops THEN matchEnd(msg, i + 1) ELSE i

RECURSIVE replaceFrom(_, _)
\* msg.replace(/\/[^\s,)]+/g, "[path]") from index i on: a "/" followed by
\* at least one character outside Stops starts a match, which runs as far as
\* such characters go
replaceFrom(msg, i) ==
    IF i > Len(msg) THEN <<>>
    ELSE IF msg[i] = SEP /\ i < Len(msg) /\ msg[i + 1] \notin Stops
         THEN <<"[path]">> \o replaceFrom(msg, matchEnd(msg, i) + 1)
         ELSE <<msg[i]>> \o replaceFrom(msg, i + 1)

\* sanitizeError(err)
sanitizeError(msg) == replaceFrom(msg, 1)

\* what a handler leaves behind: the status and body it answers with, the
\* file system, and the canonical paths it touched
Outcome(st, f, h, d) ==
    [status |-> st, fs |-> f, hit |-> h, data |-> d, size |-> 0, error |-> "",
     items |-> <<>>]
Fail(st, f, h, msg) == [Outcome(st, f, h, <<>>) EXCEPT !.error = msg]

\* the canonical paths a listing of the canonical directory dir reads: the
\* directory and what fs.stat reaches through each child
lsHit(f, dir) ==
    ({dir} \cup { realpath(f, Child(dir, n)) : n \in childNames(f, dir) }) \ {Null}

\* the characters of the model's names in the order of the collation of
\* localeCompare, without their case: punctuation, digits, letters
Collation ==
    <<" ", "(", ")", ",", ".", "2", "d", "e", "f", "k", "l", "n", "p", "r", "s", "u",
      "x", "y", "z">>
PrimaryRank(c) == CHOOSE i \in 1..Len(Collation) : Collation[i] = LowerChar(c)

RECURSIVE comparePrimary(_, _)
\* the names compared without their case: -1, 0 or 1
comparePrimary(a, b) ==
    IF a = <<>> THEN (IF b = <<>> THEN 0 ELSE -1)
    ELSE IF b = <<>> THEN 1
    ELSE IF PrimaryRank(Head(a)) = PrimaryRank(Head(b))
         THEN comparePrimary(Tail(a), Tail(b))
    ELSE IF PrimaryRank(Head(a)) < PrimaryRank(Head(b)) THEN -1 ELSE 1

RECURSIVE compareCase(_, _)
\* names that differ in case only: lower case first at the first difference
compareCase(a, b) ==
    IF a = <<>> \/ b = <<>> THEN 0
    ELSE IF Head(a) = Head(b) THEN compareCase(Tail(a), Tail(b))
    ELSE IF Head(a) = LowerChar(Head(a)) THEN -1 ELSE 1

\* a.localeCompare(b)
localeCompare(a, b) ==
    IF comparePrimary(a, b) # 0 THEN comparePrimary(a, b) ELSE compareCase(a, b)

\* a comparator that goes by the name alone
compareItems_byName(a, b) == localeCompare(a.name, b.name)

\* the comparator of items.sort: directories first, then by name
compareItems(a, b) ==
    IF a.isDir # b.isDir THEN (IF a.isDir THEN -1 ELSE 1)
    ELSE localeCompare(a.name, b.name)

\* an item whose size and mtime are those of the entry itself (lstat)
lsItem_lstat(f, dirPath, e) ==
    LET st == f[pathJoin(dirPath, e.name)] IN
    [name |-> e.name, isDir |-> e.kind = "dir", isFile |-> e.kind = "file",
     isSymlink |-> e.kind = "link",
     size |-> IF st.kind = "file" THEN byteLength(st.data) ELSE 0,
     mtime |-> 1]

\* the item of /api/ls for Dirent e of directory dirPath: the type is the
\* entry's own, size and mtime what fs.stat reaches through it, both 0 when
\* it throws (the size of a directory is left at 0, and every node there is
\* was last modified at time 1)
lsItem(f, dirPath, e) ==
    LET st == stat(f, pathJoin(dirPath, e.name)) IN
    [name |-> e.name, isDir |-> e.kind = "dir", isFile |-> e.kind = "file",
     isSymlink |-> e.kind = "link",
     size |-> IF st.kind = "file" THEN byteLength(st.data) ELSE 0,
     mtime |-> IF st = NoNode THEN 0 ELSE 1]

RECURSIVE sortItems(_)
\* items.sort(compareItems): Array.prototype.sort is stable; each item goes
\* behind the items, sorted so far, that it does not come before
sortItems(items) ==
    IF items = <<>> THEN <<>>
    ELSE LET rest == sortItems(SubSeq(items, 1, Len(items) - 1))
             x == items[Len(items)]
             k == Cardinality({ i \in 1..Len(rest) : compareItems(x, rest[i]) >= 0 })
         IN  SubSeq(rest, 1, k) \o <<x>> \o SubSeq(rest, k + 1, Len(rest))

\* the items of /api/ls
lsItems(f, dirPath) ==
    LET entries == readdir(f, realpath(f, dirPath)) IN
    sortItems([i \in 1..Len(entries) |-> lsItem(f, dirPath, entries[i])])

\* mkdir(dirname(filePath)) then writeFile(filePath) of /api/write and
\* /api/upload, d being the bytes written
writeOf(f, filePath, d, msg) ==
    LET m == fsMkdir(f, pathDirname(filePath)) IN
    IF ~m.ok THEN Fail(500, f, {}, msg)
    ELSE LET w == fsWriteFile(m.fs, filePath, d) IN
         IF ~w.ok THEN Fail(500, m.fs, m.hit, msg)
         ELSE Outcome(200, w.fs, m.hit \cup w.hit, <<>>)

\* /api/read from fs.stat to its response
readOf(f, filePath) ==
    LET st == stat(f, filePath) IN
    IF st = NoNode THEN Fail(500, f, {}, "Failed to read")
    ELSE IF st.kind # "file"
         THEN Fail(400, f, {realpath(f, filePath)}, "not a file")
    ELSE IF byteLength(st.data) > MaxReadBytes
         THEN Fail(400, f, {realpath(f, filePath)}, "file too large (max 2MB)")
    ELSE IF includesZero(probe(st.data))
         THEN Fail(400, f, {realpath(f, filePath)}, "binary file -- cannot edit")
    ELSE [Outcome(200, f, {realpath(f, filePath)}, utf8Decode(st.data))
             EXCEPT !.size = byteLength(st.data)]

\* a handler from its first file-system call to its response
execOf(f, r) ==
    IF r.op = "ls"
    THEN LET st == stat(f, r.resolved) IN
         IF st = NoNode THEN Fail(500, f, {}, "Failed to list")
         ELSE IF st.kind # "dir"
              THEN Fail(400, f, {realpath(f, r.resolved)}, "not a directory")
         ELSE [Outcome(200, f, lsHit(f, realpath(f, r.resolved)), <<>>)
                 EXCEPT !.items = lsItems(f, r.resolved)]
    ELSE IF r.op = "read"
    THEN readOf(f, r.resolved)
    ELSE IF r.op = "write"
    THEN writeOf(f, r.resolved, utf8Encode(r.content), "Failed to write")
    ELSE IF r.op = "upload"
    THEN LET w == writeOf(f, r.resolved, bufferConcat(r.chunks), "Failed to upload")
         IN  IF w.status = 200 THEN [w EXCEPT !.size = r.size] ELSE w
    ELSE IF r.op = "mkdir"
    THEN LET m == fsMkdir(f, r.resolved) IN
         IF m.ok THEN Outcome(200, m.fs, m.hit, <<>>)
         ELSE Fail(500, f, {}, "Failed to mkdir")
    ELSE IF r.op = "delete"
    THEN LET d == fsRm(f, r.resolved) IN
         IF d.ok THEN Outcome(200, d.fs, d.hit, <<>>)
         ELSE Fail(500, f, {}, "Failed to delete")
    ELSE \* search
         Outcome(200, f, searchFiles(f, r.resolved, r.q).read, <<>>)

(***************************************************************************)
(* The gateway: actions                                                    *)
(***************************************************************************)
\* the /files command: a pairing code is drawn for gatewayToken
CreateCode(gatewayToken) ==
    /\ store' = createPairingCode(store, Len(codeLog) + 1, gatewayToken, now)
    /\ codeLog' = Append(codeLog, [seed |-> gatewayToken, at |-> now,
                                   tried |-> FALSE, wins |-> 0])
    /\ resp' = NoResp
    /\ UNCHANGED <<fs, allowedPaths, externalUrl, corsOrigin, wsClient, fileList, activeTokens, now, ticks, tokenLog, reqs>>

\* POST /api/exchange arrives; its body is still being read
ArriveExchange(s, pairCode) ==
    /\ reqs[s].pc = "idle"
    /\ reqs' = [reqs EXCEPT ![s] = [IdleReq EXCEPT !.pc = "body",
                                       !.op = "exchange", !.code = pairCode]]
    /\ resp' = NoResp
    /\ UNCHANGED <<fs, allowedPaths, externalUrl, corsOrigin, wsClient, fileList, store, activeTokens, now, ticks, codeLog, tokenLog>>

\* /api/exchange after readJsonBody: the code is redeemed and, when it was
\* valid, a session token is drawn and stored
ExchangeFinish(s) ==
    LET r == reqs[s]
        x == exchangePairingCode(store, r.code, now)
        known == r.code \in 1..Len(codeLog)
        sessionToken == Len(tokenLog) + 1
        first == known /\ ~codeLog[r.code].tried
    IN
    /\ r.pc = "body"
    /\ store' = x.store
    /\ reqs' = [reqs EXCEPT ![s] = IdleReq]
    /\ IF x.ret = None \/ x.ret = ""
       THEN /\ resp' = [NoResp EXCEPT !.op = "exchange", !.status = 401,
                           !.code = r.code, !.seed = x.ret, !.first = first,
                           !.error = "invalid or expired pairing code"]
            /\ codeLog' = IF known
                          THEN [codeLog EXCEPT ![r.code].tried = TRUE]
                          ELSE codeLog
            /\ UNCHANGED <<activeTokens, tokenLog>>
       ELSE /\ activeTokens' = issueToken(activeTokens, sessionToken, now)
            /\ tokenLog' = Append(tokenLog, now)
            /\ resp' = [NoResp EXCEPT !.op = "exchange", !.status = 200,
                           !.code = r.code, !.seed = x.ret, !.first = first,
                           !.token = sessionToken]
            /\ codeLog' = [codeLog EXCEPT ![r.code].tried = TRUE,
                                          ![r.code].wins = @ + 1]
    /\ UNCHANGED <<fs, allowedPaths, externalUrl, corsOrigin, wsClient, fileList, now, ticks>>

\* the home directory /api/home answers with
homeOf(allowed) == IF Len(allowed) > 0 THEN pathResolve(allowed[1]) ELSE HomeDir

\* a request to an endpoint other than /api/exchange arrives: a CORS
\* preflight is answered 204; any other passes the auth gate or is answered
\* 401; /api/home is answered at once
Arrive(s, hdr, r) ==
    LET a == checkAuth(activeTokens, hdr, now) IN
    /\ reqs[s].pc = "idle"
    /\ IF r.method = "OPTIONS"
       THEN /\ resp' = [NoResp EXCEPT !.op = r.op, !.method = r.method,
                           !.status = 204, !.hdr = hdr, !.raw = r.path]
            /\ reqs' = reqs
            /\ activeTokens' = activeTokens
       ELSE IF ~a.ok
       THEN /\ resp' = [NoResp EXCEPT !.op = r.op, !.method = r.method,
                           !.status = 401, !.hdr = hdr, !.raw = r.path,
                           !.error = "unauthorized"]
            /\ reqs' = reqs
            /\ activeTokens' = a.tokens
       ELSE IF r.op = "home"
       THEN /\ resp' = [NoResp EXCEPT !.op = "home", !.method = r.method,
                           !.status = 200, !.hdr = hdr,
                           !.path = homeOf(allowedPaths)]
            /\ reqs' = reqs
            /\ activeTokens' = a.tokens
       ELSE /\ resp' = NoResp
            /\ reqs' = [reqs EXCEPT ![s] = [r EXCEPT !.pc = "guard", !.hdr = hdr]]
            /\ activeTokens' = a.tokens
    /\ UNCHANGED <<fs, allowedPaths, externalUrl, corsOrigin, wsClient, fileList, store, now, ticks, codeLog, tokenLog>>

\* a handler that answers its refusal and goes on to its file-system calls
Guard_goesOn(s) ==
    LET r == reqs[s]
        g == guardOf(fs, allowedPaths, r)
    IN
    /\ r.pc = "guard"
    /\ reqs' = [reqs EXCEPT ![s] = [r EXCEPT !.pc = "exec",
                    !.resolved = IF g.resolved = Null THEN r.path ELSE g.resolved]]
    /\ resp' = IF g.status = 0 THEN NoResp
               ELSE [NoResp EXCEPT !.op = r.op, !.method = r.method,
                        !.status = g.status, !.hdr = r.hdr, !.raw = r.path,
                        !.path = g.resolved, !.error = g.error]
    /\ UNCHANGED <<fs, allowedPaths, externalUrl, corsOrigin, wsClient, fileList, store, activeTokens, now, ticks, codeLog, tokenLog>>

\* the handler canonicalizes and authorizes its path
Guard(s) ==
    LET r == reqs[s] IN
    /\ r.pc = "guard"
    /\ \E g \in {guardOf(fs, allowedPaths, r)} :
          IF g.status = 0
          THEN /\ reqs' = [reqs EXCEPT ![s] = [r EXCEPT !.pc = "exec",
                                                  !.resolved = g.resolved]]
               /\ resp' = NoResp
          ELSE /\ reqs' = [reqs EXCEPT ![s] = IdleReq]
               /\ resp' = [NoResp EXCEPT !.op = r.op, !.method = r.method,
                              !.status = g.status, !.hdr = r.hdr, !.raw = r.path,
                              !.path = g.resolved, !.error = g.error]
    /\ UNCHANGED <<fs, allowedPaths, externalUrl, corsOrigin, wsClient, fileList, store, activeTokens, now, ticks, codeLog, tokenLog>>

\* the handler performs its file-system calls and responds
Exec(s) ==
    LET r == reqs[s] IN
    /\ r.pc = "exec"
    /\ \E e \in {execOf(fs, r)} :
          /\ fs' = e.fs
          /\ resp' = [NoResp EXCEPT !.op = r.op, !.method = r.method,
                         !.status = e.status, !.hdr = r.hdr,
                         !.raw = r.path, !.path = r.resolved, !.data = e.data,
                         !.hit = e.hit, !.size = e.size, !.error = e.error,
                         !.detail = IF e.status = 500
                                    THEN sanitizeError(failureOf(r))
                                    ELSE <<>>,
                         !.results = e.items]
    /\ reqs' = [reqs EXCEPT ![s] = IdleReq]
    /\ UNCHANGED <<allowedPaths, externalUrl, corsOrigin, wsClient, fileList, store, activeTokens, now, ticks, codeLog, tokenLog>>

\* Exec takes the file-system calls of a handler in one step.  The actions
\* below take the calls of /api/write and /api/read one await at a time.

\* /api/write: fs.mkdir(dirname), then fs.writeFile opens the file
WriteOpen(s) ==
    LET r == reqs[s]
        m == fsMkdir(fs, pathDirname(r.resolved))
        o == fsOpenTrunc(m.fs, r.resolved)
    IN
    /\ r.pc = "exec"
    /\ r.op = "write"
    /\ IF m.ok /\ o.ok
       THEN /\ fs' = o.fs
            /\ reqs' = [reqs EXCEPT ![s] = [r EXCEPT !.pc = "flush", !.fd = o.fd]]
            /\ resp' = NoResp
       ELSE /\ fs' = m.fs
            /\ reqs' = [reqs EXCEPT ![s] = IdleReq]
            /\ resp' = [NoResp EXCEPT !.op = r.op, !.method = r.method,
                           !.status = 500, !.hdr = r.hdr, !.raw = r.path,
                           !.path = r.resolved, !.error = "Failed to write"]
    /\ UNCHANGED <<allowedPaths, externalUrl, corsOrigin, wsClient, fileList, store, activeTokens, now, ticks, codeLog, tokenLog>>

\* /api/write: fs.writeFile writes the content and closes; 200
WriteFlush(s) ==
    LET r == reqs[s] IN
    /\ r.pc = "flush"
    /\ fs' = fsWriteFd(fs, r.fd, utf8Encode(r.content))
    /\ reqs' = [reqs EXCEPT ![s] = IdleReq]
    /\ resp' = [NoResp EXCEPT !.op = r.op, !.method = r.method, !.status = 200,
                   !.hdr = r.hdr, !.raw = r.path, !.path = r.resolved,
                   !.hit = {r.fd}]
    /\ UNCHANGED <<allowedPaths, externalUrl, corsOrigin, wsClient, fileList, store, activeTokens, now, ticks, codeLog, tokenLog>>

\* the response of /api/read that ends the handler
ReadAnswers(s, e) ==
    /\ reqs' = [reqs EXCEPT ![s] = IdleReq]
    /\ resp' = [NoResp EXCEPT !.op = "read", !.method = reqs[s].method,
                   !.status = e.status, !.hdr = reqs[s].hdr,
                   !.raw = reqs[s].path, !.path = reqs[s].resolved,
                   !.data = e.data, !.hit = e.hit, !.size = e.size,
                   !.error = e.error]

\* /api/read: fs.stat, isFile and the size limit
ReadStat(s) ==
    LET r == reqs[s]
        st == stat(fs, r.resolved)
        at == {realpath(fs, r.resolved)}
    IN
    /\ r.pc = "exec"
    /\ r.op = "read"
    /\ IF st = NoNode THEN ReadAnswers(s, Fail(500, fs, {}, "Failed to read"))
       ELSE IF st.kind # "file" THEN ReadAnswers(s, Fail(400, fs, at, "not a file"))
       ELSE IF byteLength(st.data) > MaxReadBytes
            THEN ReadAnswers(s, Fail(400, fs, at, "file too large (max 2MB)"))
       ELSE /\ reqs' = [reqs EXCEPT ![s] = [r EXCEPT !.pc = "probe",
                                               !.size = byteLength(st.data)]]
            /\ resp' = NoResp
    /\ UNCHANGED <<fs, allowedPaths, externalUrl, corsOrigin, wsClient, fileList, store, activeTokens, now, ticks, codeLog, tokenLog>>

\* /api/read: the file is opened, its first 512 bytes are read, it is closed
ReadProbe(s) ==
    LET r == reqs[s]
        st == stat(fs, r.resolved)
        at == {realpath(fs, r.resolved)}
    IN
    /\ r.pc = "probe"
    /\ IF st = NoNode \/ st.kind # "file"
       THEN ReadAnswers(s, Fail(500, fs, at \ {Null}, "Failed to read"))
       ELSE IF includesZero(probe(st.data))
            THEN ReadAnswers(s, Fail(400, fs, at, "binary file -- cannot edit"))
       ELSE /\ reqs' = [reqs EXCEPT ![s] = [r EXCEPT !.pc = "readFile"]]
            /\ resp' = NoResp
    /\ UNCHANGED <<fs, allowedPaths, externalUrl, corsOrigin, wsClient, fileList, store, activeTokens, now, ticks, codeLog, tokenLog>>

\* /api/read: fs.readFile and the response, size being the stat.size taken
\* by ReadStat
ReadFile(s) ==
    LET r == reqs[s]
        st == stat(fs, r.resolved)
        at == {realpath(fs, r.resolved)}
    IN
    /\ r.pc = "readFile"
    /\ IF st = NoNode \/ st.kind # "file"
       THEN ReadAnswers(s, Fail(500, fs, at \ {Null}, "Failed to read"))
       ELSE ReadAnswers(s, [Outcome(200, fs, at, utf8Decode(st.data))
                               EXCEPT !.size = r.size])
    /\ UNCHANGED <<fs, allowedPaths, externalUrl, corsOrigin, wsClient, fileList, store, activeTokens, now, ticks, codeLog, tokenLog>>

\* /api/upload: a chunk of the body arrives while the handler waits for the
\* end of the stream; past the ceiling the request is destroyed
UploadData(s, chunk) ==
    LET r == reqs[s] IN
    /\ r.pc = "exec"
    /\ r.op = "upload"
    /\ Len(r.chunks) < MaxChunks
    /\ reqs' = [reqs EXCEPT ![s] = onData(r, chunk)]
    /\ resp' = NoResp
    /\ UNCHANGED <<fs, allowedPaths, externalUrl, corsOrigin, wsClient, fileList, store, activeTokens, now, ticks, codeLog, tokenLog>>

\* /api/upload: the destroyed request closes and the handler answers 413
UploadClose(s) ==
    LET r == reqs[s] IN
    /\ r.pc = "overflow"
    /\ reqs' = [reqs EXCEPT ![s] = IdleReq]
    /\ resp' = [NoResp EXCEPT !.op = r.op, !.method = r.method, !.status = 413,
                   !.hdr = r.hdr, !.raw = r.path, !.path = r.resolved,
                   !.error = "file too large (max 50MB)"]
    /\ UNCHANGED <<fs, allowedPaths, externalUrl, corsOrigin, wsClient, fileList, store, activeTokens, now, ticks, codeLog, tokenLog>>

\* /api/upload: the connection closes before the body has ended and "close"
\* is the only event the request emits: its listener resolves the promise as
\* "end" does, no flag is set, and the handler goes on with the chunks it has
UploadCut(s) ==
    LET r == reqs[s] IN
    /\ r.pc = "exec"
    /\ r.op = "upload"
    /\ \E e \in {execOf(fs, r)} :
          /\ fs' = e.fs
          /\ resp' = [NoResp EXCEPT !.op = r.op, !.method = r.method,
                         !.status = e.status, !.hdr = r.hdr,
                         !.raw = r.path, !.path = r.resolved, !.data = e.data,
                         !.hit = e.hit, !.size = e.size, !.error = e.error,
                         !.detail = IF e.status = 500
                                    THEN sanitizeError(failureOf(r))
                                    ELSE <<>>,
                         !.cut = TRUE]
    /\ reqs' = [reqs EXCEPT ![s] = IdleReq]
    /\ UNCHANGED <<allowedPaths, externalUrl, corsOrigin, wsClient, fileList, store, activeTokens, now, ticks, codeLog, tokenLog>>

\* /api/upload: the stream fails and the handler answers 500
UploadError(s) ==
    LET r == reqs[s] IN
    /\ r.pc = "exec"
    /\ r.op = "upload"
    /\ reqs' = [reqs EXCEPT ![s] = IdleReq]
    /\ resp' = [NoResp EXCEPT !.op = r.op, !.method = r.method, !.status = 500,
                   !.hdr = r.hdr, !.raw = r.path, !.path = r.resolved,
                   !.error = "upload stream error"]
    /\ UNCHANGED <<fs, allowedPaths, externalUrl, corsOrigin, wsClient, fileList, store, activeTokens, now, ticks, codeLog, tokenLog>>

\* JSON text, token by token: the braces of an object, a member whose value
\* is a string, a member whose value is a number
JOpen == [k |-> "{", name |-> <<>>, value |-> <<>>]
JClose == [k |-> "}", name |-> <<>>, value |-> <<>>]
JString(n, v) == [k |-> "string", name |-> n, value |-> v]
JNumber(n) == [k |-> "number", name |-> n, value |-> <<>>]

\* the bytes of a chunk of JSON text: a brace is one byte; a member is its
\* name and its value in UTF-8 with their quotes, the colon and the comma
tokenBytes(t) ==
    IF t.k \in {"{", "}"} THEN 1
    ELSE Len(t.name) + byteLength(utf8Encode(t.value)) + 6
RECURSIVE chunkLength(_)
chunkLength(chunk) ==
    IF chunk = <<>> THEN 0 ELSE tokenBytes(Head(chunk)) + chunkLength(Tail(chunk))

\* what readJsonBody resolves: null, or the object with its members
NullBody == [isNull |-> TRUE, members |-> <<>>]
ObjectBody(ms) == [isNull |-> FALSE, members |-> ms]

\* JSON.parse(text) inside the try of the "end" listener: the object, or
\* null when it throws
jsonParse(text) ==
    IF /\ Len(text) >= 2
       /\ text[1] = JOpen
       /\ text[Len(text)] = JClose
       /\ \A i \in 2..(Len(text) - 1) : text[i].k \in {"string", "number"}
    THEN ObjectBody(SubSeq(text, 2, Len(text) - 1))
    ELSE NullBody

\* typeof body?.name === "string" ? body.name : dflt; of two members with
\* one name JSON.parse keeps the last
stringMember(body, n, dflt) ==
    IF body.isNull THEN dflt
    ELSE LET at == { i \in 1..Len(body.members) : body.members[i].name = n } IN
         IF at = {} THEN dflt
         ELSE LET last == body.members[CHOOSE i \in at : \A j \in at : j <= i] IN
              IF last.k = "string" THEN last.value ELSE dflt

cPath == <<"p", "a", "t", "h">>
cContent == <<"c", "o", "n", "t", "e", "n", "t">>

maxBytes == 5 * 1024 * 1024

\* the handler goes on with what readJsonBody resolved
resolveBody(r, body) ==
    [r EXCEPT !.pc = "guard",
              !.path = stringMember(body, cPath, <<>>),
              !.content = stringMember(body, cContent, Null)]

\* the "data" listener of readJsonBody
readJsonBody_data(r, chunk) ==
    LET size == r.size + chunkLength(chunk) IN
    IF size > maxBytes
    THEN resolveBody([r EXCEPT !.size = size], NullBody)
    ELSE [r EXCEPT !.size = size, !.chunks = Append(@, chunk)]

\* the "end" listener of readJsonBody
readJsonBody_end(r) == resolveBody(r, jsonParse(bufferConcat(r.chunks)))

\* the "error" listener of readJsonBody
readJsonBody_error(r) == resolveBody(r, NullBody)

\* a POST to /api/write or /api/mkdir arrives: it is answered 401 or
\* passes the auth gate, and the handler awaits readJsonBody
ArriveJson(s, hdr, op, wire) ==
    LET a == checkAuth(activeTokens, hdr, now) IN
    /\ reqs[s].pc = "idle"
    /\ op \in {"write", "mkdir"}
    /\ IF ~a.ok
       THEN /\ resp' = [NoResp EXCEPT !.op = op, !.method = "POST",
                           !.status = 401, !.hdr = hdr, !.error = "unauthorized"]
            /\ reqs' = reqs
       ELSE /\ resp' = NoResp
            /\ reqs' = [reqs EXCEPT ![s] = [IdleReq EXCEPT !.pc = "body", !.op = op,
                           !.method = "POST", !.hdr = hdr, !.wire = wire]]
    /\ activeTokens' = a.tokens
    /\ UNCHANGED <<fs, allowedPaths, externalUrl, corsOrigin, wsClient, fileList, store, now, ticks, codeLog, tokenLog>>

\* readJsonBody: the next chunk of the body arrives
JsonData(s) ==
    LET r == reqs[s] IN
    /\ r.pc = "body"
    /\ Len(r.chunks) < Len(r.wire)
    /\ reqs' = [reqs EXCEPT ![s] = readJsonBody_data(r, r.wire[Len(r.chunks) + 1])]
    /\ resp' = NoResp
    /\ UNCHANGED <<fs, allowedPaths, externalUrl, corsOrigin, wsClient, fileList, store, activeTokens, now, ticks, codeLog, tokenLog>>

\* readJsonBody: the body ends
JsonEnd(s) ==
    LET r == reqs[s] IN
    /\ r.pc = "body"
    /\ Len(r.chunks) = Len(r.wire)
    /\ reqs' = [reqs EXCEPT ![s] = readJsonBody_end(r)]
    /\ resp' = NoResp
    /\ UNCHANGED <<fs, allowedPaths, externalUrl, corsOrigin, wsClient, fileList, store, activeTokens, now, ticks, codeLog, tokenLog>>

\* readJsonBody: the request emits "error"
JsonError(s) ==
    LET r == reqs[s] IN
    /\ r.pc = "body"
    /\ reqs' = [reqs EXCEPT ![s] = readJsonBody_error(r)]
    /\ resp' = NoResp
    /\ UNCHANGED <<fs, allowedPaths, externalUrl, corsOrigin, wsClient, fileList, store, activeTokens, now, ticks, codeLog, tokenLog>>

\* readJsonBody: nothing more comes: the client goes silent on an open
\* connection, or the connection closes and the request emits "close"
\* alone.  readJsonBody listens to "data", "end" and "error" and sets no
\* timer: its promise stays pending.
JsonClose(s) ==
    LET r == reqs[s] IN
    /\ r.pc = "body"
    /\ reqs' = [reqs EXCEPT ![s] = [r EXCEPT !.pc = "pending"]]
    /\ resp' = NoResp
    /\ UNCHANGED <<fs, allowedPaths, externalUrl, corsOrigin, wsClient, fileList, store, activeTokens, now, ticks, codeLog, tokenLog>>

\* /api/upload: fs.writeFile throws ENAMETOOLONG, as it does where the file
\* system holds no name of more than 255 bytes, and the handler answers 500;
\* fs.mkdir of the directory, which is there, has changed nothing
UploadTooLong(s) ==
    LET r == reqs[s] IN
    /\ r.pc = "exec"
    /\ r.op = "upload"
    /\ \E i \in 1..Len(r.name) : r.name[i] = Page
    /\ fsMkdir(fs, pathDirname(r.resolved)).fs = fs
    /\ reqs' = [reqs EXCEPT ![s] = IdleReq]
    /\ resp' = [NoResp EXCEPT !.op = r.op, !.method = r.method, !.status = 500,
                   !.hdr = r.hdr, !.raw = r.path, !.path = r.resolved,
                   !.error = "Failed to upload"]
    /\ UNCHANGED <<fs, allowedPaths, externalUrl, corsOrigin, wsClient, fileList, store, activeTokens, now, ticks, codeLog, tokenLog>>

\* time passes
Tick(d) ==
    /\ ticks < MaxTicks
    /\ now' = now + d
    /\ ticks' = ticks + 1
    /\ resp' = NoResp
    /\ UNCHANGED <<fs, allowedPaths, externalUrl, corsOrigin, wsClient, fileList, store, activeTokens, codeLog, tokenLog, reqs>>

\* the hourly timer drops the expired session tokens
Cleanup ==
    /\ cleanupTokens(activeTokens, now) # activeTokens
    /\ activeTokens' = cleanupTokens(activeTokens, now)
    /\ resp' = NoResp
    /\ UNCHANGED <<fs, allowedPaths, externalUrl, corsOrigin, wsClient, fileList, store, now, ticks, codeLog, tokenLog, reqs>>

(***************************************************************************)
(* The requests clients send                                               *)
(***************************************************************************)
\* the method each endpoint is routed by
MethodOf(op) ==
    IF op \in {"write", "upload", "mkdir"} THEN "POST"
    ELSE IF op = "delete" THEN "DELETE"
    ELSE "GET"

Req(op, path) == [IdleReq EXCEPT !.op = op, !.method = MethodOf(op), !.path = path]

\* the CORS preflight of a request
Preflight(r) == [r EXCEPT !.method = "OPTIONS"]

FileReqs ==
    { Req("ls", p) : p \in {pD, pDotDotE, pDL} }
    \cup { Req("read", p) : p \in {pDSF, pDLX, pDK} }
    \cup { [Req("write", p) EXCEPT !.content = <<"h", "i">>] : p \in {pDNPF, pDK, pDSF} }
    \cup { Req("mkdir", p) : p \in {pDNP} }
    \cup { Req("delete", p) : p \in {pD, pDS, pDN} }
    \cup { [Req("search", p) EXCEPT !.q = <<"f">>] : p \in {pD, pE} }
    \cup { [Req("upload", pDS) EXCEPT !.name = n, !.chunks = << <<"u">> >>,
                                      !.size = 1] :
              n \in {<<"u">>, <<".", ".", SEP, "e">>} }
    \cup { Req("home", <<>>) }
    \cup { Preflight(Req("delete", pDS)) }

\* the requests of a client that lists, saves and deletes in the directory
CoreReqs ==
    { Req("ls", pD), [Req("write", pDSF) EXCEPT !.content = <<"h", "i">>],
      Req("delete", pD), Req("delete", pDS), Preflight(Req("delete", pDS)) }

\* the contents an editor saves: a short text with a character of two
\* bytes, a text of more than 2 MB, a text with a NUL in it, a text with a
\* NUL after its first 512 bytes, and more than 2 MB that start with a NUL
Hey == <<"h", EAcute>>
Big == <<"a", "a", "a", MiB, MiB>>
Bin == <<"h", NUL>>
Late == <<Page, NUL>>
BigBin == <<NUL, "a", "a", MiB, MiB>>
SavedContents == {Hey, Big, Bin, Late, BigBin}

\* the requests of a client that opens and saves one file, and opens the
\* directory it is in
EditReqs ==
    { [Req("write", pDSF) EXCEPT !.content = c] : c \in SavedContents }
    \cup { Req("read", pDSF), Req("read", pDS) }

\* a name of 513 characters: "u" and a run of 512 times "a"
LongName == <<"u", Page>>

\* the uploads of a client to /d/s, under a plain name and under names the
\* handler must refuse
UploadNames ==
    {<<"u">>, <<".", ".", SEP, "e">>, DOT, DOTDOT, <<"u", "\\", "e">>,
     <<"u", NUL>>, <<SEP, "e">>, <<>>, LongName}
UploadReqs ==
    { [Req("upload", pDS) EXCEPT !.name = n] : n \in UploadNames }

\* the chunks a body arrives in: one byte, or 25 MiB
SmallChunk == <<"u">>
LargeChunk == [i \in 1..25 |-> MiB]
Chunks == {SmallChunk, LargeChunk}

\* the Authorization headers a client may send
Headers ==
    {NoHeader, Bearer(EmptyCred), Bearer(ForgedCred)}
    \cup { Bearer(t) : t \in 1..Len(tokenLog) }

\* the pairing codes a client may send: those drawn, and one never drawn
PairCodes == 0..Len(codeLog)

\* a new request takes the first free connection slot
FreeSlot(s) == reqs[s].pc = "idle" /\ \A t \in 1..(s - 1) : reqs[t].pc # "idle"

\* the clock advances past a session token's life
SessionDeltas == {TOKEN_TTL_MS + 1}

\* the clock advances to the instant before a code expires, and past it
PairingDeltas == {TTL_MS - 1, 2}

\* the path guard applied to one path
ApplySafePath(rawPath) ==
    /\ resp' = [NoResp EXCEPT !.op = "safePath", !.raw = rawPath,
                   !.path = safePath(fs, rawPath)]
    /\ UNCHANGED <<fs, allowedPaths, externalUrl, corsOrigin, wsClient, fileList, store, activeTokens, now, ticks, codeLog,
                   tokenLog, reqs>>

ApplyIsPathAllowed(resolvedPath) ==
    /\ resp' = [NoResp EXCEPT !.op = "isPathAllowed", !.raw = resolvedPath,
                   !.verdict = isPathAllowed(fs, resolvedPath, allowedPaths)]
    /\ UNCHANGED <<fs, allowedPaths, externalUrl, corsOrigin, wsClient, fileList, store, activeTokens, now, ticks, codeLog,
                   tokenLog, reqs>>

\* searchFiles(basePath, query) is called and returns
ApplySearchFiles(basePath, query) ==
    LET st == searchFiles(fs, basePath, query) IN
    /\ resp' = [NoResp EXCEPT !.op = "searchFiles", !.raw = basePath,
                   !.data = query, !.results = st.results, !.trace = st.trace]
    /\ UNCHANGED <<fs, allowedPaths, externalUrl, corsOrigin, wsClient, fileList, store, activeTokens, now, ticks, codeLog,
                   tokenLog, reqs>>

\* searchFiles(basePath, query) is called: walk(basePath, 0) is entered
SearchCall(s, basePath, query) ==
    /\ reqs[s].pc = "idle"
    /\ reqs' = [reqs EXCEPT ![s] =
                  [IdleReq EXCEPT !.pc = "walk", !.op = "searchFiles",
                                  !.path = basePath, !.q = query,
                                  !.st = FreshWalk, !.frames = <<Frame(basePath, 0)>>]]
    /\ resp' = NoResp
    /\ UNCHANGED <<fs, allowedPaths, externalUrl, corsOrigin, wsClient, fileList, store, activeTokens, now, ticks,
                   codeLog, tokenLog>>

\* an invocation of searchFiles runs on to its next await
SearchStep(s) ==
    LET r == reqs[s] IN
    /\ r.pc = "walk"
    /\ r.frames # <<>>
    /\ LET w == walkStep(fs, toLowerCase(r.q), [st |-> r.st, frames |-> r.frames]) IN
       reqs' = [reqs EXCEPT ![s] = [r EXCEPT !.st = w.st, !.frames = w.frames]]
    /\ resp' = NoResp
    /\ UNCHANGED <<fs, allowedPaths, externalUrl, corsOrigin, wsClient, fileList, store, activeTokens, now, ticks,
                   codeLog, tokenLog>>

\* walk(basePath, 0) has returned and searchFiles returns its results
SearchReturn(s) ==
    LET r == reqs[s] IN
    /\ r.pc = "walk"
    /\ r.frames = <<>>
    /\ reqs' = [reqs EXCEPT ![s] = IdleReq]
    /\ resp' = [NoResp EXCEPT !.op = "searchFiles", !.raw = r.path, !.data = r.q,
                   !.results = r.st.results, !.trace = r.st.trace]
    /\ UNCHANGED <<fs, allowedPaths, externalUrl, corsOrigin, wsClient, fileList, store, activeTokens, now, ticks,
                   codeLog, tokenLog>>

\* the directories searched and the queries
SearchBases == {pD, pDS, pDSU, pR}
SearchQueries == {<<"f">>, <<"F">>, <<"d">>}

\* the paths the guard is applied to
GuardPaths ==
    {Root, pD, pDS, pDSF, pDL, pDK, pDN, pDNP, pDNPF, pD2, pE, pEX, pEZ, pR, pRQ,
     pDotDotE, pDLX, <<SEP, "d", SEP, "q">>, <<>>, <<SEP, "d", NUL>>}

Command == Len(codeLog) < MaxCodes /\ \E g \in Seeds : CreateCode(g)
ExchangeArrives == \E s \in Slots, c \in PairCodes : FreeSlot(s) /\ ArriveExchange(s, c)
ExchangeResponds == \E s \in Slots : ExchangeFinish(s)
RequestArrives == \E s \in Slots, h \in Headers, r \in FileReqs : FreeSlot(s) /\ Arrive(s, h, r)
RequestGuards == \E s \in Slots : Guard(s)
RequestExecutes == \E s \in Slots : Exec(s)
SessionAges == \E d \in SessionDeltas : Tick(d)
HomeArrives ==
    \E s \in Slots, h \in Headers : FreeSlot(s) /\ Arrive(s, h, Req("home", <<>>))
TimePasses == \E d \in PairingDeltas : Tick(d)

\* the file gateway, one request at a time
Next ==
    \/ RequestArrives
    \/ RequestGuards
    \/ RequestExecutes
    \/ SessionAges
    \/ Cleanup

Spec == Init /\ [][Next]_vars

\* the file gateway with handlers interleaving, for the requests of CoreReqs
CoreArrives == \E s \in Slots, h \in Headers, r \in CoreReqs : FreeSlot(s) /\ Arrive(s, h, r)

NextCore ==
    \/ CoreArrives
    \/ RequestGuards
    \/ RequestExecutes
    \/ SessionAges
    \/ Cleanup

SpecCore == InitCore /\ [][NextCore]_vars

\* the file gateway with /api/read and /api/write taken one await at a time
EditArrives == \E s \in Slots, r \in EditReqs : FreeSlot(s) /\ Arrive(s, Bearer(1), r)
WriteOpens == \E s \in Slots : WriteOpen(s)
WriteFlushes == \E s \in Slots : WriteFlush(s)
ReadStats == \E s \in Slots : ReadStat(s)
ReadProbes == \E s \in Slots : ReadProbe(s)
ReadFiles == \E s \in Slots : ReadFile(s)

NextFile ==
    \/ EditArrives
    \/ RequestGuards
    \/ WriteOpens
    \/ WriteFlushes
    \/ ReadStats
    \/ ReadProbes
    \/ ReadFiles

SpecFile == InitFile /\ [][NextFile]_vars

\* the file gateway receiving uploads chunk by chunk
UploadArrives == \E s \in Slots, r \in UploadReqs : FreeSlot(s) /\ Arrive(s, Bearer(1), r)
UploadStreams == \E s \in Slots, c \in Chunks : UploadData(s, c)
UploadAborts == \E s \in Slots : UploadClose(s)
UploadBreaks == \E s \in Slots : UploadError(s)
UploadNameFails == \E s \in Slots : UploadTooLong(s)
UploadCuts == \E s \in Slots : UploadCut(s)

NextUpload ==
    \/ UploadArrives
    \/ RequestGuards
    \/ UploadStreams
    \/ UploadAborts
    \/ UploadBreaks
    \/ UploadNameFails
    \/ UploadCuts
    \/ RequestExecutes

SpecUpload == InitUpload /\ [][NextUpload]_vars

\* the bodies a client posts: JSON.stringify({path, content}) in one chunk
\* and in two, the same cut short, with 6 MiB of content, with a number for
\* content, for a path outside /d, and {path} for a directory
jsonStringify(path, content) ==
    <<JOpen, JString(cPath, path), JString(cContent, content), JClose>>
SixMiB == <<MiB, MiB, MiB, MiB, MiB, MiB>>
Wires ==
    LET doc == jsonStringify(pDSF, <<"h", "i">>) IN
    { <<doc>>,
      <<SubSeq(doc, 1, 2), SubSeq(doc, 3, 4)>>,
      <<SubSeq(doc, 1, 3)>>,
      <<SubSeq(jsonStringify(pDSF, SixMiB), 1, 2), SubSeq(jsonStringify(pDSF, SixMiB), 3, 4)>>,
      <<<<JOpen, JString(cPath, pDSF), JNumber(cContent), JClose>>>>,
      <<jsonStringify(pEX, <<"h", "i">>)>>,
      <<<<JOpen, JString(cPath, pDN), JClose>>>> }

\* the file gateway reading JSON bodies chunk by chunk
JsonArrives ==
    \E s \in Slots, h \in {Bearer(1), Bearer(2)}, op \in {"write", "mkdir"}, w \in Wires :
        FreeSlot(s) /\ ArriveJson(s, h, op, w)
BodyStreams == \E s \in Slots : JsonData(s)
BodyEnds == \E s \in Slots : JsonEnd(s)
BodyBreaks == \E s \in Slots : JsonError(s)
BodyCloses == \E s \in Slots : JsonClose(s)

NextBody ==
    \/ JsonArrives
    \/ BodyStreams
    \/ BodyEnds
    \/ BodyBreaks
    \/ BodyCloses
    \/ RequestGuards
    \/ RequestExecutes

SpecBody == InitBody /\ [][NextBody]_vars

\* the event loop runs every continuation that is ready: weak fairness of
\* the guard step and of the file-system step, each with its enabling
\* condition (a request waits at that step) written out
GuardsFair ==
    \/ []<>(\A s \in 1..MaxBodyReqs : reqs[s].pc # "guard")
    \/ []<><<RequestGuards>>_vars
ExecutesFair ==
    \/ []<>(\A s \in 1..MaxBodyReqs : reqs[s].pc # "exec")
    \/ []<><<RequestExecutes>>_vars

\* and a request whose body is being read has a next event: data, the end,
\* an error, or nothing more
SpecBodyFair ==
    /\ SpecBody
    /\ GuardsFair
    /\ ExecutesFair
    /\ WF_vars(BodyStreams \/ BodyEnds \/ BodyBreaks \/ BodyCloses)

\* the targets of a client that asks for what is not there: a missing
\* name, names with a space, a comma and a parenthesis in them, a directory
\* whose name ends with a space and a name in it that starts with one, and
\* a file that is there
MissingPaths ==
    { pDN,
      <<SEP, "d", SEP, "n", " ", "y">>,
      <<SEP, "d", SEP, "n", ",", "y">>,
      <<SEP, "d", SEP, "n", "(", "y", ")", "z">>,
      <<SEP, "d", SEP, "n", " ", SEP, " ", "y">>,
      pDSF }
ErrorReqs ==
    { Req(op, p) : op \in {"ls", "read", "delete", "mkdir"}, p \in MissingPaths }
    \cup { [Req("write", pDS) EXCEPT !.content = <<"h", "i">>] }

\* the file gateway answering requests for what is not there
ErrorArrives == \E s \in Slots, r \in ErrorReqs : FreeSlot(s) /\ Arrive(s, Bearer(1), r)

NextError ==
    \/ ErrorArrives
    \/ RequestGuards
    \/ RequestExecutes

SpecError == InitError /\ [][NextError]_vars

\* the file gateway listing directories, a link to one, and a file
ListReqs == { Req("ls", p) : p \in {pD, pDS, pDSD, pR, pDSF} }
ListArrives == \E s \in Slots, r \in ListReqs : FreeSlot(s) /\ Arrive(s, Bearer(1), r)

NextList ==
    \/ ListArrives
    \/ RequestGuards
    \/ RequestExecutes

SpecList == InitList /\ [][NextList]_vars

\* the client asks for the start directory, and lists the path it was given
HomeAsked == \E s \in Slots : FreeSlot(s) /\ Arrive(s, Bearer(1), Req("home", <<>>))
HomeListed ==
    \E s \in Slots :
        /\ resp.op = "home"
        /\ resp.status = 200
        /\ FreeSlot(s)
        /\ Arrive(s, Bearer(1), Req("ls", resp.path))

NextHome ==
    \/ HomeAsked
    \/ HomeListed
    \/ RequestGuards
    \/ RequestExecutes

SpecHome == InitHome /\ [][NextHome]_vars

\* the file gateway deleting in a tree of nested roots
DeleteReqs ==
    { Req("delete", t) : t \in {pD, pDS, pDSD, pDSF, pDSDF, pDL, pD2, pE, pEX, pR} }
DeleteArrives == \E s \in Slots, r \in DeleteReqs : FreeSlot(s) /\ Arrive(s, Bearer(1), r)

NextRoots ==
    \/ DeleteArrives
    \/ RequestGuards
    \/ RequestExecutes

SpecRoots == InitRoots /\ [][NextRoots]_vars

\* the file gateway of an operator who configured any of the external URLs,
\* answering preflights, strangers and a paired client
CorsReqs == { Req("ls", pD), Req("read", pDSF), Req("ls", pE), Req("home", Null) }
CorsArrives ==
    \E s \in Slots, r \in CorsReqs, h \in {Bearer(1), NoHeader} :
        FreeSlot(s) /\ Arrive(s, h, r)
CorsPreflights ==
    \E s \in Slots, r \in CorsReqs : FreeSlot(s) /\ Arrive(s, NoHeader, Preflight(r))

NextCors ==
    \/ CorsArrives
    \/ CorsPreflights
    \/ RequestGuards
    \/ RequestExecutes

SpecCors == InitCors /\ [][NextCors]_vars

\* pairing and sessions
NextAuth ==
    \/ Command
    \/ ExchangeArrives
    \/ ExchangeResponds
    \/ HomeArrives
    \/ TimePasses

SpecAuth == InitAuth /\ [][NextAuth]_vars

\* pairing and sessions at the capacity of the session store; the clients
\* present the two oldest tokens and the tokens issued in the run
CapacityCommand ==
    Len(codeLog) < MAX_ACTIVE_TOKENS + MaxCodes /\ CreateCode("gwA")
CapacityExchangeArrives ==
    \E s \in Slots, c \in {Len(codeLog)} : FreeSlot(s) /\ ArriveExchange(s, c)
CapacityHomeArrives ==
    \E s \in Slots, t \in {1, 2} \cup ((MAX_ACTIVE_TOKENS + 1)..Len(tokenLog)) :
        FreeSlot(s) /\ Arrive(s, Bearer(t), Req("home", <<>>))
CapacityTimePasses == \E d \in {TOKEN_TTL_MS - 1, 2} : Tick(d)

NextCapacity ==
    \/ CapacityCommand
    \/ CapacityExchangeArrives
    \/ ExchangeResponds
    \/ CapacityHomeArrives
    \/ CapacityTimePasses
    \/ Cleanup

SpecCapacity == InitCapacity /\ [][NextCapacity]_vars

\* issuing and redeeming with MAX_PAIRING_CODES codes in the pairing store;
\* the clients redeem the two oldest codes and the codes drawn in the run
IssueCommand ==
    Len(codeLog) < MAX_PAIRING_CODES + MaxCodes /\ \E g \in Seeds : CreateCode(g)
IssueExchangeArrives ==
    \E s \in Slots, c \in {1, 2} \cup ((MAX_PAIRING_CODES + 1)..Len(codeLog)) :
        FreeSlot(s) /\ ArriveExchange(s, c)

NextIssue ==
    \/ IssueCommand
    \/ IssueExchangeArrives
    \/ ExchangeResponds
    \/ TimePasses

SpecIssue == InitIssue /\ [][NextIssue]_vars

\* searchFiles as a function
SearchApplied == \E b \in SearchBases, q \in SearchQueries : ApplySearchFiles(b, q)

NextSearch == SearchApplied

SpecSearch == InitSearch /\ [][NextSearch]_vars

\* invocations of searchFiles that run at the same time
WalkCalls ==
    \E s \in Slots, c \in {<<pD, <<"f">>>>, <<pDSU, <<"d">>>>} : SearchCall(s, c[1], c[2])
WalkSteps == \E s \in Slots : SearchStep(s)
WalkReturns == \E s \in Slots : SearchReturn(s)

NextWalk ==
    \/ WalkCalls
    \/ WalkSteps
    \/ WalkReturns

SpecWalk == InitWalk /\ [][NextWalk]_vars

\* searchFiles on the deep and on the wide tree
DepthCalls ==
    \E s \in Slots, c \in {<<pE, <<"f">>>>, <<pD, <<"f">>>>, <<pDS, <<"d">>>>} :
        SearchCall(s, c[1], c[2])

NextDepth ==
    \/ DepthCalls
    \/ WalkSteps
    \/ WalkReturns

SpecDepth == InitDepth /\ [][NextDepth]_vars

\* searchFiles from the root of the tree, from the directories that cannot
\* be read or resolved, and from paths that lead nowhere
SkipCalls ==
    \E s \in Slots, b \in {pD, pDS, pDSX, pDP, pDPD, pDN, pDK}, q \in {<<"f">>, <<"d">>} :
        SearchCall(s, b, q)

NextSkip ==
    \/ SkipCalls
    \/ WalkSteps
    \/ WalkReturns

SpecSkip == InitSkip /\ [][NextSkip]_vars

\* ---- static assets --------------------------------------------------------

\* the directory of the web app's files
DIST_WEBAPP == pD

indexHtml == <<"i", "n", "d", "e", "x", ".", "h", "t", "m", "l">>

\* path.resolve(from, to) for an absolute from
pathResolveFrom(from, to) ==
    IF to # <<>> /\ to[1] = SEP THEN pathResolve(to)
    ELSE pathResolve(from \o <<SEP>> \o to)

\* the answer of serveStaticAsset: file is the real path of the file whose
\* bytes are sent
StaticAnswer(st, file, d) == [status |-> st, file |-> file, data |-> d]

\* sendFile: fs.createReadStream(filePath) piped into the response, 500 when
\* the stream fails before anything is sent
sendFile(f, filePath) ==
    LET node == stat(f, filePath) IN
    IF node.kind = "file" THEN StaticAnswer(200, realpath(f, filePath), node.data)
    ELSE StaticAnswer(500, Null, <<>>)

\* the SPA fallback: index.html of distRoot if fs.existsSync finds it
spaFallback(f, distRoot) ==
    LET indexPath == pathJoin(distRoot, indexHtml) IN
    IF stat(f, indexPath) # NoNode THEN sendFile(f, indexPath)
    ELSE StaticAnswer(404, Null, <<>>)

\* serveStaticAsset(_req, res, urlPath, distRoot)
serveStaticAsset(f, urlPath, distRoot) ==
    LET safe == IF urlPath = <<SEP>> \/ urlPath = <<>> THEN <<SEP>> \o indexHtml ELSE urlPath
        rel == IF safe[1] = SEP THEN Tail(safe) ELSE safe
        resolved == pathResolveFrom(distRoot, rel)
        realPath == realpath(f, resolved)
    IN  IF ~StartsWith(resolved, distRoot) THEN StaticAnswer(403, Null, <<>>)
        ELSE IF realPath = Null THEN spaFallback(f, distRoot)
        ELSE IF ~StartsWith(realPath, realpath(f, distRoot)) THEN StaticAnswer(403, Null, <<>>)
        ELSE IF f[realPath].kind = "dir" THEN spaFallback(f, distRoot)
        ELSE sendFile(f, realPath)

\* the web app in /d: /d/m links to the file x of the sibling /d2, and
\* index.html is a file, a link to a file outside, a directory, or missing
pDM == <<SEP, "d", SEP, "m">>
pD2X == <<SEP, "d", "2", SEP, "x">>
pIndex == Child(pD, indexHtml)
DistFs == (pDM :> LinkNode(pD2X)) @@ (pD2X :> FileNode(<<"k", "e", "y">>)) @@ BaseFs
StaticWorlds ==
    { DistFs,
      (pIndex :> FileNode(<<"h">>)) @@ DistFs,
      (pIndex :> LinkNode(pEX)) @@ DistFs,
      (pIndex :> DirNode) @@ DistFs }

InitStatic ==
    /\ fs \in StaticWorlds
    /\ allowedPaths = <<pD>>
    /\ Configured(<<>>)
    /\ wsClient = NewClient
    /\ fileList = NewList
    /\ store = <<>>
    /\ activeTokens = <<>>
    /\ now = 0
    /\ ticks = 0
    /\ codeLog = <<>>
    /\ tokenLog = <<>>
    /\ reqs = [s \in 1..MaxReqs |-> IdleReq]
    /\ resp = NoResp

\* the sub-paths asked for: the root, a file, a directory, a file through
\* the link /d/l that leaves /d, the link to the sibling, the sibling by
\* "..", an absolute path behind a second "/", a dangling link, nothing,
\* a path outside by "..", a path without its "/", the sibling itself
UrlPaths ==
    { <<SEP>>, <<>>, <<SEP, "s", SEP, "f">>, <<SEP, "s">>, <<SEP, "l", SEP, "x">>,
      <<SEP, "m">>, <<SEP, ".", ".", SEP, "d", "2", SEP, "x">>,
      <<SEP, SEP, "e", SEP, "x">>, <<SEP, "k">>, <<SEP, "n">>,
      <<SEP, ".", ".", SEP, "e", SEP, "x">>, <<"2", SEP, "x">>,
      <<SEP, ".", ".", SEP, "d", "2">> }

\* a GET that is no API call reaches the handler
StaticArrive(s, urlPath) ==
    /\ FreeSlot(s)
    /\ reqs' = [reqs EXCEPT ![s] = [IdleReq EXCEPT !.pc = "static", !.op = "static",
                                                   !.method = "GET", !.path = urlPath]]
    /\ resp' = NoResp
    /\ UNCHANGED <<fs, allowedPaths, externalUrl, corsOrigin, wsClient, fileList, store, activeTokens, now, ticks,
                   codeLog, tokenLog>>

\* serveStaticAsset answers it
ServeStatic(s) ==
    LET r == reqs[s] IN
    /\ r.pc = "static"
    /\ \E a \in {serveStaticAsset(fs, r.path, DIST_WEBAPP)} :
          resp' = [NoResp EXCEPT !.op = "static", !.method = "GET", !.status = a.status,
                                 !.raw = r.path, !.path = a.file, !.data = a.data]
    /\ reqs' = [reqs EXCEPT ![s] = IdleReq]
    /\ UNCHANGED <<fs, allowedPaths, externalUrl, corsOrigin, wsClient, fileList, store, activeTokens, now, ticks,
                   codeLog, tokenLog>>

StaticArrives == \E s \in Slots, u \in UrlPaths : StaticArrive(s, u)
StaticServes == \E s \in Slots : ServeStatic(s)

NextStatic ==
    \/ StaticArrives
    \/ StaticServes

SpecStatic == InitStatic /\ [][NextStatic]_vars

\* ---- the gateway client at work -----------------------------------------

MaxSockets == 2
MaxCalls == 1

InitWebApp ==
    /\ fs = NoVolume
    /\ allowedPaths = <<>>
    /\ Configured(<<>>)
    /\ wsClient = NewClient
    /\ fileList = NewList
    /\ store = <<>>
    /\ activeTokens = <<>>
    /\ now = 0
    /\ ticks = 0
    /\ codeLog = <<>>
    /\ tokenLog = <<>>
    /\ reqs = [s \in 1..MaxReqs |-> IdleReq]
    /\ resp = NoResp

WsRest == <<fs, allowedPaths, externalUrl, corsOrigin, fileList, store, activeTokens,
            codeLog, tokenLog, reqs, resp>>

\* the timers that are set
Armed(c) == { i \in DOMAIN c.calls : c.calls[i].timer }

WsConnect ==
    /\ Len(wsClient.sockets) < MaxSockets
    /\ wsClient' = connect(wsClient)
    /\ UNCHANGED <<now, ticks>> /\ UNCHANGED WsRest

WsOpen ==
    \E k \in DOMAIN wsClient.sockets :
        /\ wsClient.sockets[k] = "CONNECTING"
        /\ wsClient' = onopen(wsClient, k, now)
        /\ UNCHANGED <<now, ticks>> /\ UNCHANGED WsRest

WsCall ==
    /\ Cardinality({ i \in DOMAIN wsClient.calls : wsClient.calls[i].kind = "call" }) < MaxCalls
    /\ wsClient' = call(wsClient, now)
    /\ UNCHANGED <<now, ticks>> /\ UNCHANGED WsRest

\* the gateway sends a response frame on an open socket, for any id
WsMessage ==
    \E k \in DOMAIN wsClient.sockets, id \in 1..wsClient.nextId, ok \in BOOLEAN :
        /\ wsClient.sockets[k] = "OPEN"
        /\ wsClient' = onmessage(wsClient, id, ok)
        /\ UNCHANGED <<now, ticks>> /\ UNCHANGED WsRest

\* a timer fires when its time has come
WsTimeout ==
    \E i \in Armed(wsClient) :
        /\ now >= wsClient.calls[i].due
        /\ wsClient' = timeout(wsClient, i)
        /\ UNCHANGED <<now, ticks>> /\ UNCHANGED WsRest

WsDisconnect ==
    /\ wsClient.ws # 0
    /\ wsClient' = disconnect(wsClient)
    /\ UNCHANGED <<now, ticks>> /\ UNCHANGED WsRest

\* a socket closes: after disconnect(), or on the gateway's or the network's
\* account
WsClose ==
    \E k \in DOMAIN wsClient.sockets :
        /\ wsClient.sockets[k] # "CLOSED"
        /\ wsClient' = onclose(wsClient, k)
        /\ UNCHANGED <<now, ticks>> /\ UNCHANGED WsRest

\* time passes until the next timer is due
WsTick ==
    /\ Armed(wsClient) # {}
    /\ \A i \in Armed(wsClient) : wsClient.calls[i].due > now
    /\ \E i \in Armed(wsClient) :
          /\ \A j \in Armed(wsClient) : wsClient.calls[j].due >= wsClient.calls[i].due
          /\ now' = wsClient.calls[i].due
    /\ ticks' = ticks + 1
    /\ wsClient' = [wsClient EXCEPT !.last = "tick"]
    /\ UNCHANGED WsRest

NextWs ==
    \/ WsConnect
    \/ WsOpen
    \/ WsCall
    \/ WsMessage
    \/ WsTimeout
    \/ WsDisconnect
    \/ WsClose
    \/ WsTick

SpecWs == InitWebApp /\ [][NextWs]_vars

\* ---- the file list at work ----------------------------------------------

MaxSearches == 3

ViewRest == <<fs, allowedPaths, externalUrl, corsOrigin, wsClient, store, activeTokens, now,
              ticks, codeLog, tokenLog, reqs, resp>>

\* the user edits the search field
ViewInput ==
    \E query \in {<<>>, <<"f">>, <<"d">>} :
        /\ fileList' = onInput(fileList, query)
        /\ UNCHANGED ViewRest

ViewDebounce ==
    /\ fileList.searchTimeout # Null
    /\ fileList.searchGeneration < MaxSearches
    /\ fileList' = onSearchTimeout(fileList)
    /\ UNCHANGED ViewRest

\* the answers come in any order
ViewAnswer ==
    \E c \in fileList.inflight, ok \in BOOLEAN :
        /\ fileList' = onSearchSettled(fileList, c, ok)
        /\ UNCHANGED ViewRest

NextView ==
    \/ ViewInput
    \/ ViewDebounce
    \/ ViewAnswer

SpecView == InitWebApp /\ [][NextView]_vars

\* a timer that is due fires, and time passes while a timer is waiting
SpecWsFair == SpecWs /\ WF_vars(WsTimeout) /\ WF_vars(WsTick)

\* the path guard as a function
GuardApplied ==
    \/ \E p \in GuardPaths : ApplySafePath(p)
    \/ \E p \in GuardPaths : ApplyIsPathAllowed(p)

NextGuard == GuardApplied

SpecGuard == InitGuard /\ [][NextGuard]_vars

(***************************************************************************)
(* Properties.  The history variables codeLog and tokenLog and the file    *)
(* system itself say what was issued and where a path leads; the           *)
(* properties compare the gateway's answers with them.                     *)
(***************************************************************************)
RECURSIVE Follow(_, _, _, _)
\* where the segments rest lead from the canonical directory cur when every
\* symbolic link met is followed, a dangling one too; what does not exist is
\* appended as it is written.  Null when the links loop.
Follow(f, cur, rest, fuel) ==
    IF rest = <<>> THEN cur
    ELSE IF cur \notin DOMAIN f \/ f[cur].kind # "dir"
         THEN ToStr(Split(cur) \o rest)
    ELSE LET nxt == Child(cur, Head(rest)) IN
         IF nxt \in DOMAIN f /\ f[nxt].kind = "link"
         THEN IF fuel = 0 THEN Null
              ELSE Follow(f, Root, Split(f[nxt].target) \o Tail(rest), fuel - 1)
         ELSE Follow(f, nxt, Tail(rest), fuel)

\* the canonical form of p: '..' segments resolved, then every symbolic link;
\* Null when nothing of p can be resolved
CanonicalForm(f, p) ==
    IF Root \notin DOMAIN f THEN Null
    ELSE Follow(f, Root, Split(pathResolve(p)), LinkFuel(f))

RECURSIVE Reappend(_, _, _)
\* the deepest ancestor of current (current included) that resolves, in its
\* canonical form, with suffix appended; Null when none resolves
Reappend(f, current, suffix) ==
    LET real == realpath(f, current) IN
    IF real # Null THEN ToStr(Split(real) \o suffix)
    ELSE IF current = Root THEN Null
    ELSE Reappend(f, pathDirname(current), <<pathBasename(current)>> \o suffix)

\* canonicalize as the specification states it: the canonical form of an
\* existing path, the canonical form of the deepest existing ancestor with
\* the whole suffix re-appended for one that does not exist, Null when no
\* ancestor resolves
Canonicalize(f, p) == Reappend(f, pathResolve(p), <<>>)

\* the canonical forms of the allow-listed roots
CanonRoots(f, allowed) ==
    { CanonicalForm(f, EffectivePaths(allowed)[i]) :
        i \in 1..Len(EffectivePaths(allowed)) } \ {Null}

\* p is the canonical form of an allow-listed root or lies below one
Inside(f, allowed, p) ==
    p # Null /\ \E r \in CanonRoots(f, allowed) : p = r \/ IsBelow(p, r)

\* the header carries no bearer token, a token that was never issued or a
\* token issued more than TOKEN_TTL_MS ago
TokenInvalid(hdr) ==
    \/ hdr.scheme # "Bearer"
    \/ hdr.cred \notin 1..Len(tokenLog)
    \/ now > tokenLog[hdr.cred] + TOKEN_TTL_MS

FileOps == {"ls", "read", "write", "mkdir", "delete", "upload", "search"}

\* C1: every file-system operation of the ls, read, write, mkdir, delete,
\* upload and search handlers targets a path whose canonical form is an
\* allow-listed root or lies below one: the canonical paths a handler
\* touched are all inside the allow-list.
C1_OperationsInside ==
    resp.op \in FileOps => \A q \in resp.hit : Inside(fs, allowedPaths, q)

\* C2 as stated: a request to an endpoint other than /api/exchange that
\* carries no bearer token, an unknown token or an expired token is answered
\* 401 in the step it arrives in, which leaves the file system alone and
\* starts no handler; no handler is ever started for such a request.
C2_AuthBeforeFilesAsStated ==
    [][ /\ \A s \in Slots :
              (reqs[s].pc = "idle" /\ reqs'[s].pc # "idle"
                   /\ reqs'[s].op # "exchange")
                  => ~TokenInvalid(reqs'[s].hdr)
        /\ (resp'.op \in FileOps \cup {"home"} /\ reqs' = reqs
                /\ TokenInvalid(resp'.hdr))
               => (resp'.status = 401 /\ fs' = fs /\ resp'.hit = {}) ]_vars

\* C2, amended: a request to an endpoint other than /api/exchange that
\* carries no bearer token, an unknown token or an expired token is answered
\* 401 unless it is a CORS preflight (method OPTIONS), which is answered
\* 204; either way the step it arrives in leaves the file system alone and
\* starts no handler, and no handler is ever started for such a request.
C2_AuthBeforeFiles ==
    [][ /\ \A s \in Slots :
              (reqs[s].pc = "idle" /\ reqs'[s].pc # "idle"
                   /\ reqs'[s].op # "exchange")
                  => ~TokenInvalid(reqs'[s].hdr)
        /\ (resp'.op \in FileOps \cup {"home"} /\ reqs' = reqs
                /\ TokenInvalid(resp'.hdr))
               => /\ resp'.status = IF resp'.method = "OPTIONS" THEN 204 ELSE 401
                  /\ fs' = fs
                  /\ resp'.hit = {} ]_vars

\* a write that presented an expired session token was answered 401
C2_Witness ==
    /\ resp.op = "write"
    /\ resp.method = "POST"
    /\ resp.status = 401
    /\ resp.hdr = Bearer(1)
    /\ now > tokenLog[1] + TOKEN_TTL_MS
    /\ fs = BaseFs

\* C3: of all redemptions of one pairing code at most one returns the seed
\* and yields a session token; every exchange is answered either with the
\* code's seed and a new session token, the only such answer for the code,
\* or with the invalid signal (null, 401) and no token.
C3_RedeemedOnce ==
    /\ \A c \in 1..Len(codeLog) : codeLog[c].wins <= 1
    /\ resp.op = "exchange" =>
          \/ /\ resp.status = 200
             /\ resp.code \in 1..Len(codeLog)
             /\ resp.seed = codeLog[resp.code].seed
             /\ codeLog[resp.code].wins = 1
             /\ resp.token = Len(tokenLog)
          \/ /\ resp.status = 401
             /\ resp.seed = None
             /\ resp.token = 0

\* a code that was redeemed is presented again before its TTL has passed,
\* and the exchange is answered 401
C3_Witness ==
    /\ resp.op = "exchange"
    /\ resp.status = 401
    /\ resp.code \in 1..Len(codeLog)
    /\ codeLog[resp.code].wins = 1
    /\ now < codeLog[resp.code].at + TTL_MS

\* C4: the first redemption of a pairing code returns exactly the seed the
\* code was issued with when less than TTL_MS (5 minutes) have passed since
\* it was issued, and the invalid signal when more than TTL_MS have passed.
C4_CodeLife ==
    (resp.op = "exchange" /\ resp.first) =>
        LET c == codeLog[resp.code] IN
        /\ now < c.at + TTL_MS => (resp.status = 200 /\ resp.seed = c.seed)
        /\ now > c.at + TTL_MS => (resp.status = 401 /\ resp.seed = None)

\* the code issued for gwB is redeemed for the first time one millisecond
\* before its TTL has passed, and returns gwB
C4_Witness ==
    /\ resp.op = "exchange"
    /\ resp.first
    /\ now = codeLog[resp.code].at + TTL_MS - 1
    /\ codeLog[resp.code].seed = "gwB"
    /\ resp.seed = "gwB"

\* C5 as stated: a session token issued at time t is accepted by the
\* session check at every time before t + 24 hours and rejected at every
\* time after t + 24 hours.
C5_TokenLifeAsStated ==
    (resp.op = "home" /\ resp.hdr.scheme = "Bearer"
         /\ resp.hdr.cred \in 1..Len(tokenLog)) =>
        LET issued == tokenLog[resp.hdr.cred] IN
        /\ now < issued + TOKEN_TTL_MS => resp.status = 200
        /\ now > issued + TOKEN_TTL_MS => resp.status = 401

\* C5, amended: a session token issued at time t is accepted by the session
\* check at every time before t + 24 hours as long as fewer than
\* MAX_ACTIVE_TOKENS exchanges have succeeded after the one that issued it,
\* and is rejected at every time after t + 24 hours.
C5_TokenLife ==
    (resp.op = "home" /\ resp.hdr.scheme = "Bearer"
         /\ resp.hdr.cred \in 1..Len(tokenLog)) =>
        LET issued == tokenLog[resp.hdr.cred] IN
        /\ (now < issued + TOKEN_TTL_MS
               /\ Len(tokenLog) - resp.hdr.cred < MAX_ACTIVE_TOKENS)
              => resp.status = 200
        /\ now > issued + TOKEN_TTL_MS => resp.status = 401

\* a token issued when the store was full is accepted one millisecond before
\* its 24 hours have passed
C5_Witness ==
    /\ resp.op = "home"
    /\ resp.status = 200
    /\ resp.hdr.scheme = "Bearer"
    /\ resp.hdr.cred > MAX_ACTIVE_TOKENS
    /\ now = tokenLog[resp.hdr.cred] + TOKEN_TTL_MS - 1

\* C6: for the only root R of the allow-list and every path P,
\* isPathAllowed(P, {R}) is true iff P equals canonical(R) or P starts with
\* canonical(R) followed by the path separator.
C6_ContainmentIff ==
    resp.op = "isPathAllowed" =>
        LET canonR == Canonicalize(fs, allowedPaths[1]) IN
        resp.verdict <=>
            /\ canonR # Null
            /\ \/ resp.raw = canonR
               \/ StartsWith(resp.raw, canonR \o <<SEP>>)

\* C7: ls, read and search of a path whose canonical form lies outside
\* every allow-listed root are answered 403.
C7_OutsideIs403 ==
    (resp.op \in {"ls", "read", "search"} /\ resp.method = "GET"
         /\ resp.status # 401) =>
        LET canon == CanonicalForm(fs, IF resp.raw = <<>> THEN Root ELSE resp.raw) IN
        (canon # Null /\ ~Inside(fs, allowedPaths, canon)) => resp.status = 403

\* C8 as stated: a delete whose canonical target is an allow-listed root is
\* answered 403 and removes nothing; a delete of an existing target
\* strictly below an allow-listed root removes it and is answered ok.
C8_DeleteAsStated ==
    [][ (resp'.op = "delete" /\ resp'.method = "DELETE" /\ resp'.status # 401) =>
          LET target == CanonicalForm(fs, resp'.raw)
              roots == CanonRoots(fs, allowedPaths)
          IN
          /\ target \in roots => (resp'.status = 403 /\ fs' = fs)
          /\ (target \in DOMAIN fs /\ \E r \in roots : IsBelow(target, r))
                => (resp'.status = 200 /\ target \notin DOMAIN fs') ]_vars

\* C8, amended: a delete whose canonical target is an allow-listed root is
\* answered 403 and removes nothing; a delete of an existing target that is
\* strictly below an allow-listed root and is not itself an allow-listed
\* root removes it and is answered ok.
C8_Delete ==
    [][ (resp'.op = "delete" /\ resp'.method = "DELETE" /\ resp'.status # 401) =>
          LET target == CanonicalForm(fs, resp'.raw)
              roots == CanonRoots(fs, allowedPaths)
          IN
          /\ target \in roots => (resp'.status = 403 /\ fs' = fs)
          /\ (target \in DOMAIN fs /\ target \notin roots
                 /\ \E r \in roots : IsBelow(target, r))
                => (resp'.status = 200 /\ target \notin DOMAIN fs') ]_vars

\* the delete of a link to the allow-listed root was answered 403, and the
\* root is still there
C8_Witness ==
    /\ resp.op = "delete"
    /\ resp.method = "DELETE"
    /\ resp.status = 403
    /\ allowedPaths = <<pR>>
    /\ resp.raw = pD
    /\ pDSF \in DOMAIN fs

\* C9: for a path that does not exist safePath returns the canonical form
\* of the deepest existing ancestor with the whole suffix re-appended, and
\* a write answered ok has put a file at the path that was asked for.
C9_WholeSuffix ==
    /\ \A s \in Slots :
          (reqs[s].pc = "exec" /\ reqs[s].op \in {"write", "mkdir"}
               /\ realpath(fs, pathResolve(reqs[s].path)) = Null)
              => reqs[s].resolved = Canonicalize(fs, reqs[s].path)
    /\ (resp.op = "write" /\ resp.status = 200)
          => stat(fs, pathResolve(resp.raw)).kind = "file"

\* C10: a request whose path has no ancestor that resolves is denied, and no
\* request goes on to its file-system calls on the strength of a root that
\* does not resolve: a handler that is past the path guard has a path of
\* which an ancestor resolves, inside a root that resolves.
C10_FailsClosed ==
    \A s \in Slots :
        reqs[s].pc = "exec" =>
            /\ Canonicalize(fs, reqs[s].path) # Null
            /\ \E i \in 1..Len(EffectivePaths(allowedPaths)) :
                  LET base == realpath(fs, pathResolve(EffectivePaths(allowedPaths)[i])) IN
                  /\ base # Null
                  /\ reqs[s].resolved = base \/ IsBelow(reqs[s].resolved, base)

\* a write through the dangling link /d/k was answered ok and has created
\* /e/z, outside the only root /d
C1_Witness ==
    /\ allowedPaths = <<pD>>
    /\ resp.op = "write"
    /\ resp.status = 200
    /\ resp.raw = pDK
    /\ pEZ \in resp.hit
    /\ pEZ \in DOMAIN fs

\* the only root is /r/q, below the link /r to /d, and does not exist: its
\* canonical form is /d/q, and /d/q is not contained
C6_Witness ==
    /\ fs = BaseFs
    /\ allowedPaths = <<pRQ>>
    /\ Canonicalize(fs, pRQ) = <<SEP, "d", SEP, "q">>
    /\ resp.op = "isPathAllowed"
    /\ resp.raw = <<SEP, "d", SEP, "q">>
    /\ ~resp.verdict

\* a read of the dangling link /d/k, which leads to /e/z outside the only
\* root /d, was answered 500
C7_Witness ==
    /\ allowedPaths = <<pD>>
    /\ resp.op = "read"
    /\ resp.raw = pDK
    /\ CanonicalForm(fs, pDK) = pEZ
    /\ resp.status = 500

\* a write to /d/n/p/f, of which only /d existed, was answered ok with path
\* /d/n, and /d/n is a file
C9_Witness ==
    /\ allowedPaths = <<pD>>
    /\ resp.op = "write"
    /\ resp.raw = pDNPF
    /\ resp.status = 200
    /\ resp.path = pDN
    /\ fs = (pDN :> FileNode(<<"h", "i">>)) @@ BaseFs

\* nothing resolves, and a listing is past the path guard with the path as
\* it was written
C10_Witness ==
    /\ fs = NoVolume
    /\ \E s \in Slots :
          /\ reqs[s].pc = "exec"
          /\ reqs[s].op = "ls"
          /\ reqs[s].resolved = pathResolve(reqs[s].path)

\* what a client sees of an exchange
ExchangeOutcome(r) ==
    [status |-> r.status, ret |-> r.seed, token |-> r.token, error |-> r.error]

\* C11: the redemption of a code that never existed, of a code whose TTL
\* has passed and of a code that was redeemed before are all answered with
\* one and the same outcome: null from the store, 401 and the body
\* "invalid or expired pairing code".
C11_UniformInvalid ==
    [][ \A s \in Slots :
          (reqs[s].pc = "body" /\ reqs'[s].pc = "idle" /\ resp'.op = "exchange"
               /\ resp'.code = reqs[s].code) =>
              LET c == reqs[s].code
                  neverExisted == c \notin 1..Len(codeLog)
                  expired == ~neverExisted /\ now >= codeLog[c].at + TTL_MS
                  redeemed == ~neverExisted /\ codeLog[c].wins >= 1
              IN  (neverExisted \/ expired \/ redeemed) =>
                      ExchangeOutcome(resp') =
                          [status |-> 401, ret |-> None, token |-> 0,
                           error |-> "invalid or expired pairing code"] ]_vars

\* a code that was never redeemed is presented after its TTL has passed and
\* is answered like a code that never existed
C11_Witness ==
    /\ resp.op = "exchange"
    /\ resp.first
    /\ codeLog[resp.code].wins = 0
    /\ now > codeLog[resp.code].at + TTL_MS
    /\ ExchangeOutcome(resp) =
           [status |-> 401, ret |-> None, token |-> 0,
            error |-> "invalid or expired pairing code"]

\* C12: the session store never holds more than MAX_ACTIVE_TOKENS (200)
\* tokens, and an exchange that succeeds when the store is at capacity
\* removes exactly one entry, one with the smallest expiresAt, and then
\* inserts the new token; below capacity it only inserts.
C12_StoreBounded ==
    /\ [](Len(activeTokens) <= MAX_ACTIVE_TOKENS)
    /\ [][ Len(tokenLog') = Len(tokenLog) + 1 =>
             LET new == [token |-> Len(tokenLog'),
                         expiresAt |-> now + TOKEN_TTL_MS]
                 n == Len(activeTokens)
             IN  IF n >= MAX_ACTIVE_TOKENS
                 THEN \E i \in 1..n :
                         /\ \A j \in 1..n :
                               activeTokens[i].expiresAt <= activeTokens[j].expiresAt
                         /\ activeTokens' =
                               Append([j \in 1..(n - 1) |->
                                          IF j < i THEN activeTokens[j]
                                          ELSE activeTokens[j + 1]], new)
                 ELSE activeTokens' = Append(activeTokens, new) ]_vars

\* an exchange has succeeded with the store at capacity: the store holds
\* MAX_ACTIVE_TOKENS tokens again, the new one among them and the oldest gone
C12_Witness ==
    /\ resp.op = "exchange"
    /\ resp.status = 200
    /\ Len(tokenLog) = MAX_ACTIVE_TOKENS + 1
    /\ Len(activeTokens) = MAX_ACTIVE_TOKENS
    /\ HasToken(activeTokens, MAX_ACTIVE_TOKENS + 1)
    /\ ~HasToken(activeTokens, 1)

\* C13: the pairing store never holds more than MAX_PAIRING_CODES (100)
\* codes.
C13_PairingStoreBounded == Len(store) <= MAX_PAIRING_CODES

\* a code has been issued to a store that held MAX_PAIRING_CODES live codes
C13_Witness ==
    /\ Len(codeLog) = MAX_PAIRING_CODES + 1
    /\ Len(store) = MAX_PAIRING_CODES + 1
    /\ \A i \in 1..Len(store) : store[i].expiresAt > now
    /\ store[1].code = 1

\* the directories of a tree
Directories(f) == { p \in DOMAIN f : f[p].kind = "dir" }

\* C14: searchFiles on a tree with symbolic links that point back to the
\* root of the search or to a directory above them terminates: it reads no
\* directory twice, so it makes at most as many readdir calls as the tree
\* has directories; and it returns at most maxResults (50) entries.
C14_SearchTerminates ==
    resp.op = "searchFiles" =>
        /\ Len(resp.results) <= maxResults
        /\ \A i, j \in 1..Len(resp.trace) : resp.trace[i] = resp.trace[j] => i = j
        /\ Len(resp.trace) <= Cardinality(Directories(fs))

\* a search from /d met the links back to /d and more than maxResults
\* matching names, and returned maxResults of them
C14_Witness ==
    /\ resp.op = "searchFiles"
    /\ resp.raw = pD
    /\ resp.data = <<"f">>
    /\ fs = WideFs
    /\ pDSD \in { resp.trace[i] : i \in 1..Len(resp.trace) }
    /\ Len(resp.results) = maxResults

\* a text /api/read accepts: no NUL, nothing UTF-8 cannot encode, at most
\* 2 MB when encoded
PlainText(c) ==
    /\ \A i \in 1..Len(c) : c[i] \notin {NUL, LoneSurrogate}
    /\ byteLength(utf8Encode(c)) <= MaxReadBytes

\* what GET /api/read of rawPath answers when it runs alone on the file system f
ReadAlone(f, rawPath) ==
    LET g == guardOf(f, allowedPaths, Req("read", rawPath)) IN
    IF g.status # 0 THEN Fail(g.status, f, {}, g.error) ELSE readOf(f, g.resolved)

\* C15: when POST /api/write of a plain text C has answered 200, a GET
\* /api/read of the same path that follows returns C and, as size, the
\* number of bytes of C: whatever the file held is replaced, and of two
\* racing writes the one that answers last decides the content.
C15_LastWriteWins ==
    [][ \A s \in Slots :
          (reqs[s].op = "write" /\ reqs[s].pc \in {"exec", "flush"}
              /\ reqs'[s].pc = "idle" /\ resp'.status = 200
              /\ PlainText(reqs[s].content)) =>
             LET rd == ReadAlone(fs', reqs[s].path) IN
             /\ rd.status = 200
             /\ rd.data = reqs[s].content
             /\ rd.size = byteLength(utf8Encode(reqs[s].content)) ]_vars

\* a read has returned a text that a write had saved over the file
C15_Witness ==
    /\ resp.op = "read"
    /\ resp.status = 200
    /\ resp.raw = pDSF
    /\ resp.data = Hey
    /\ resp.size = 3

\* a file name /api/upload must refuse
BadUploadName(n) ==
    \/ \E i \in 1..Len(n) : n[i] \in {"/", "\\", NUL}
    \/ n = <<".">>
    \/ n = <<".", ".">>

\* C16: an upload whose name contains "/" or "\", contains NUL, or is "." or
\* ".." is answered 400 by the first step its handler takes after the auth
\* gate, and the file system is as it was.
C16_BadNameRefused ==
    [][ \A s \in Slots :
          (reqs[s].op = "upload" /\ reqs[s].pc # "idle"
              /\ BadUploadName(reqs[s].name) /\ reqs'[s] # reqs[s]) =>
             /\ reqs[s].pc = "guard"
             /\ reqs'[s].pc = "idle"
             /\ resp'.op = "upload"
             /\ resp'.status = 400
             /\ resp'.error = "dir and valid name required"
             /\ fs' = fs ]_vars

\* the upload named "../e" has been answered 400 and nothing was written
C16_Witness ==
    /\ resp.op = "upload"
    /\ resp.status = 400
    /\ resp.raw = pDS
    /\ resp.error = "dir and valid name required"
    /\ fs = BaseFs
    /\ \A s \in Slots : reqs[s].pc = "idle"

C18_ReadLimits ==
    resp.op = "read" =>
        LET st == stat(fs, resp.path) IN
        /\ resp.status = 200 =>
              st.kind = "file" /\ byteLength(st.data) <= MaxReadBytes
        /\ (st.kind = "dir" \/ (st.kind = "file" /\ byteLength(st.data) > MaxReadBytes)) =>
              resp.status = 400 /\ resp.data = <<>>

\* a read of a file of more than 2 MB has been answered 400
C18_Witness ==
    /\ resp.op = "read"
    /\ resp.status = 400
    /\ resp.error = "file too large (max 2MB)"
    /\ fs[pDSF].data = utf8Encode(Big)

\* true iff one of the first 512 bytes of data is NUL
NulInFirst512(data) ==
    \E i \in 1..Len(data) :
        data[i] = NUL /\ byteLength(SubSeq(data, 1, i - 1)) < 512

\* C19 as stated: a read of a file whose first 512 bytes contain a NUL is
\* answered 400 'binary file' without content, and a file with no NUL in its
\* first 512 bytes is not answered 'binary file'.
C19_BinaryAsStated ==
    resp.op = "read" =>
        LET st == stat(fs, resp.path) IN
        st.kind = "file" =>
            IF NulInFirst512(st.data)
            THEN /\ resp.status = 400
                 /\ resp.error = "binary file -- cannot edit"
                 /\ resp.data = <<>>
            ELSE resp.error # "binary file -- cannot edit"

\* C19: when /api/read probes a regular file that passed its size check,
\* it answers 400 'binary file' without content if one of the first 512
\* bytes of the file is NUL, and goes on to read the file otherwise, also
\* when there is a NUL further on; 'binary file' is answered for no file
\* without a NUL in its first 512 bytes.
C19_BinaryProbe ==
    /\ [](resp.error = "binary file -- cannot edit" =>
             /\ resp.op = "read"
             /\ NulInFirst512(stat(fs, resp.path).data))
    /\ [][ \A s \in Slots :
             (reqs[s].op = "read" /\ reqs[s].pc = "probe" /\ reqs'[s] # reqs[s]) =>
                LET st == stat(fs, reqs[s].resolved) IN
                st.kind = "file" =>
                    IF NulInFirst512(st.data)
                    THEN /\ reqs'[s].pc = "idle"
                         /\ resp'.status = 400
                         /\ resp'.error = "binary file -- cannot edit"
                         /\ resp'.data = <<>>
                    ELSE /\ reqs'[s].pc = "readFile"
                         /\ resp' = NoResp ]_vars

\* a read of a file that starts with "h" and NUL has been answered 400
\* 'binary file'
C19_Witness ==
    /\ resp.op = "read"
    /\ resp.status = 400
    /\ resp.error = "binary file -- cannot edit"
    /\ stat(fs, resp.path).data = utf8Encode(Bin)

\* what POST /api/mkdir of rawPath answers, and the file system it leaves,
\* when it runs alone on the file system f
MkdirAlone(f, rawPath) ==
    LET r == Req("mkdir", rawPath)
        g == guardOf(f, allowedPaths, r)
    IN  IF g.status # 0 THEN Fail(g.status, f, {}, g.error)
        ELSE execOf(f, [r EXCEPT !.resolved = g.resolved])

\* C20: when POST /api/mkdir of a path has answered 200, the path names a
\* directory, so that every missing ancestor was created with it; and the
\* same request once more answers 200 again and changes nothing.
C20_MkdirRecursive ==
    [][ \A s \in Slots :
          (reqs[s].op = "mkdir" /\ reqs[s].pc = "exec" /\ reqs'[s].pc = "idle"
              /\ resp'.status = 200) =>
             /\ stat(fs', pathResolve(reqs[s].path)).kind = "dir"
             /\ MkdirAlone(fs', reqs[s].path).status = 200
             /\ MkdirAlone(fs', reqs[s].path).fs = fs' ]_vars

\* a mkdir of /d/n/p, of which /d exists, has been answered 200
C20_Witness ==
    /\ resp.op = "mkdir"
    /\ resp.status = 200
    /\ resp.raw = pDNP
    /\ pDN \in DOMAIN fs

\* the segments of p after those of the directory b
Rel(p, b) == SubSeq(Split(p), Len(Split(b)) + 1, Len(Split(p)))

\* a and b are the same string but for the case of their letters
SameButCase(a, b) ==
    /\ Len(a) = Len(b)
    /\ \A i \in 1..Len(a) :
          a[i] = b[i] \/ {a[i], b[i]} = {"f", "F"}

\* name contains query as a substring, whatever the case of the letters
ContainsNoCase(name, query) ==
    \E i \in 0..(Len(name) - Len(query)) :
        SameButCase(SubSeq(name, i + 1, i + Len(query)), query)

\* the entries of the tree below the directory basePath resolves to, as
\* segments from there, that are not hidden and not below a hidden
\* directory, and whose name contains query
Matches(f, basePath, query) ==
    LET b == realpath(f, basePath) IN
    IF b = Null THEN {}
    ELSE { Rel(p, b) : p \in { p \in DOMAIN f :
              /\ p # Root
              /\ IsBelow(p, b)
              /\ \A i \in 1..Len(Rel(p, b)) : Head(Rel(p, b)[i]) # "."
              /\ ContainsNoCase(pathBasename(p), query) } }

\* true iff no directory below basePath lies deeper than maxDepth
WithinDepth(f, basePath) ==
    LET b == realpath(f, basePath) IN
    b # Null => \A p \in DOMAIN f : IsBelow(p, b) => Len(Rel(p, b)) <= maxDepth + 1

\* C21: when the tree below basePath has fewer than maxResults matches and
\* is nowhere deeper than maxDepth, searchFiles returns exactly the entries
\* whose name contains the query as a case-insensitive substring, each once,
\* without the hidden entries and without what lies below a hidden directory.
C21_SearchExact ==
    (resp.op = "searchFiles"
        /\ Cardinality(Matches(fs, resp.raw, resp.data)) < maxResults
        /\ WithinDepth(fs, resp.raw)) =>
       /\ { Rel(resp.results[i].path, resp.raw) : i \in 1..Len(resp.results) }
             = Matches(fs, resp.raw, resp.data)
       /\ \A i, j \in 1..Len(resp.results) :
             resp.results[i].path = resp.results[j].path => i = j
       /\ \A i \in 1..Len(resp.results) :
             resp.results[i].name = pathBasename(resp.results[i].path)

\* a search for "f" from /d has returned /d/s/f and /d/s/d/F and neither
\* /d/.f nor /d/.s/f
C21_Witness ==
    /\ resp.op = "searchFiles"
    /\ resp.raw = pD
    /\ resp.data = <<"f">>
    /\ pDHSF \in DOMAIN fs
    /\ { resp.results[i].path : i \in 1..Len(resp.results) } = {pDSF, pDSDF}

\* the endpoints that change the file system
Mutating == {"write", "upload", "mkdir", "delete"}

\* C22: a request refused with 403 is terminal: the step that answers 403
\* leaves the file system as it is, it is the first step of the handler after
\* the auth gate (nothing of the operation has run), and the handler has
\* returned with it (the request is not taken up again).
C22_RefusalTerminal ==
    [][ resp'.status = 403 =>
          /\ fs' = fs
          /\ \E s \in Slots :
                /\ reqs[s].pc = "guard"
                /\ reqs[s].op = resp'.op
                /\ reqs'[s] = IdleReq
                /\ \A t \in Slots \ {s} : reqs'[t] = reqs[t] ]_vars

\* a write, an upload, a mkdir or a delete outside the allowed paths, or a
\* delete of an allowed root, has been refused
C22_Witness ==
    /\ resp.status = 403
    /\ resp.op \in Mutating
    /\ resp.error \in {"path not allowed", "cannot delete a root allowed path"}
    /\ \A s \in Slots : reqs[s].pc = "idle"

\* C23: every request under /api/ ends with exactly one response that
\* carries a status: a handler returns only on the step that sends its
\* response, and every request a handler has taken up is answered in the end,
\* whatever the connection does while its body is read.
C23_EveryRequestAnswered ==
    /\ [][ \A s \in 1..MaxBodyReqs :
              (reqs[s].pc # "idle" /\ reqs'[s].pc = "idle") =>
                  resp'.status # 0 /\ resp'.op = reqs[s].op ]_vars
    /\ \A s \in 1..MaxBodyReqs : (reqs[s].pc # "idle") ~> (reqs[s].pc = "idle")

\* a POST to /api/write has sent the first of the two chunks of its body and
\* nothing more, and the handler still awaits readJsonBody
C23_Witness ==
    \E s \in Slots :
        /\ reqs[s].pc = "pending"
        /\ reqs[s].op = "write"
        /\ Len(reqs[s].chunks) = 1
        /\ Len(reqs[s].wire) = 2

\* true iff the target of request r is missing, or is not what its
\* endpoint works on
MissingOrWrongType(f, r) ==
    \/ r.op \in {"ls", "read", "delete"} /\ stat(f, r.resolved) = NoNode
    \/ r.op = "ls" /\ stat(f, r.resolved).kind # "dir"
    \/ r.op = "read" /\ stat(f, r.resolved).kind # "file"

\* C24: a request that has passed the path guard and whose target is
\* missing (ls, read, delete) or of the wrong type (ls of a non-directory,
\* read of a non-file) is answered 400 or 404.
C24_MissingIsClientError ==
    [][ \A s \in Slots :
          (reqs[s].pc = "exec" /\ reqs'[s].pc = "idle"
              /\ MissingOrWrongType(fs, reqs[s])) =>
             resp'.status \in {400, 404} ]_vars

\* an ls, a read or a delete of an allowed path that does not exist has
\* been answered 500
C24_Witness ==
    /\ resp.status = 500
    /\ resp.op \in {"ls", "read", "delete"}
    /\ resp.error \in {"Failed to list", "Failed to read", "Failed to delete"}
    /\ resp.path # Null
    /\ stat(fs, resp.path) = NoNode

\* the characters of the names of path p
NameChars(p) == { p[i] : i \in 1..Len(p) } \ ({SEP} \cup Stops)

\* C25: the body of a 500 response holds nothing of the path the failed
\* call was made with: no separator and no character of its names.
C25_NoPathInError ==
    (resp.status = 500 /\ resp.path # Null) =>
        \A i \in 1..Len(resp.detail) :
            resp.detail[i] # SEP /\ resp.detail[i] \notin NameChars(resp.path)

\* a 500 response for the missing "/d/n y", whose message was
\* "... stat '/d/n y'", says "... stat '[path] y'"
C25_Witness ==
    /\ resp.status = 500
    /\ resp.op = "ls"
    /\ resp.path = <<SEP, "d", SEP, "n", " ", "y">>
    /\ resp.detail = <<"ENOENT", ":", " ", "no such file or directory", ",", " ",
                       "stat", " ", "'", "[path]", " ", "y", "'">>

\* C26: the items of a listing are the children of the directory, one
\* item each; every item that is a directory comes before every item that
\* is not, and within each of the two groups the names ascend.
C26_ListingSorted ==
    (resp.op = "ls" /\ resp.status = 200) =>
        LET items == resp.results
            names == childNames(fs, resp.path)
        IN  /\ Len(items) = Cardinality(names)
            /\ { items[i].name : i \in 1..Len(items) } = names
            /\ \A i \in 1..Len(items) :
                  items[i].isDir = (fs[Child(resp.path, items[i].name)].kind = "dir")
            /\ \A i, j \in 1..Len(items) :
                  i < j =>
                     /\ items[i].isDir \/ ~items[j].isDir
                     /\ items[i].isDir = items[j].isDir =>
                           localeCompare(items[i].name, items[j].name) < 0

\* the listing of /d, which readdir gives as .f .s k l s u, has come back
\* with the directories .s and s first
C26_Witness ==
    /\ resp.op = "ls"
    /\ resp.status = 200
    /\ resp.path = pD
    /\ [i \in 1..Len(resp.results) |-> resp.results[i].name]
          = << <<".", "s">>, <<"s">>, <<".", "f">>, <<"k">>, <<"l">>, <<"u">> >>

\* C27: an upload whose name is longer than MAX_FILENAME_LENGTH (255)
\* is answered 400 by the first step its handler takes after the auth gate,
\* and the file system is as it was.
C27_LongNameRefused ==
    [][ \A s \in Slots :
          (reqs[s].op = "upload" /\ reqs[s].pc # "idle"
              /\ byteLength(reqs[s].name) > MAX_FILENAME_LENGTH
              /\ reqs'[s] # reqs[s]) =>
             /\ reqs[s].pc = "guard"
             /\ reqs'[s].pc = "idle"
             /\ resp'.status = 400
             /\ fs' = fs ]_vars

\* the upload under the name of 513 characters has been written and
\* answered 200
C27_Witness ==
    /\ resp.op = "upload"
    /\ resp.status = 200
    /\ resp.path = Child(pDS, LongName)
    /\ Child(pDS, LongName) \in DOMAIN fs

\* the Access-Control-Allow-Origin value of the response last sent:
\* jsonResponse and the preflight branch both send corsOrigin
AllowOrigin == IF resp.status = 0 THEN Null ELSE corsOrigin

\* C28: with no external URL configured, or one that cannot be parsed, the
\* Access-Control-Allow-Origin value of every response is neither "*" nor
\* the configured string.
C28_NoPermissiveOrigin ==
    (resp.status # 0 /\ ~parseURL(externalUrl).ok) =>
        /\ AllowOrigin # <<"*">>
        /\ AllowOrigin # externalUrl

\* a response went out with "*" though no URL is configured, or with the
\* configured string that is no URL
C28_Witness ==
    /\ resp.status # 0
    /\ ~parseURL(externalUrl).ok
    /\ \/ externalUrl = <<>> /\ AllowOrigin = <<"*">>
       \/ externalUrl = <<"x", ".", "y">> /\ AllowOrigin = externalUrl

\* the allow-listed root is there, as a directory
RootExists(f, base) == base \in DOMAIN f /\ f[base].kind = "dir"

\* C29: a DELETE /api/delete that is answered 200 leaves every allow-listed
\* root directory in place, also a root that lies inside another root below
\* the directory deleted.
C29_RootsSurvive ==
    [][ (resp'.op = "delete" /\ resp'.status = 200) =>
           \A i \in 1..Len(allowedPaths) :
               RootExists(fs, allowedPaths[i]) => RootExists(fs', allowedPaths[i]) ]_vars

\* /d and /d/s/d are roots, the delete of /d/s between them was answered 200
\* and the root /d/s/d is gone
C29_Witness ==
    /\ allowedPaths = <<pD, pDSD>>
    /\ resp.op = "delete"
    /\ resp.status = 200
    /\ resp.path = pDS
    /\ ~RootExists(fs, pDSD)

C31_CutWritesNothing ==
    [][ (resp'.op = "upload" /\ resp'.cut) => fs' = fs ]_vars

\* the connection closed after one chunk of the upload of /d/s/u, and the
\* file is there with that chunk in it, answered 200
C31_Witness ==
    /\ resp.op = "upload"
    /\ resp.cut
    /\ resp.status = 200
    /\ resp.path = Child(pDS, <<"u">>)
    /\ resp.size > 0
    /\ resp.path \in DOMAIN fs
    /\ fs[resp.path].kind = "file"
    /\ fs[resp.path].data # <<>>

\* the session tokens ever issued, and the pairing codes whose redemption
\* succeeded
TokensIssued == Len(tokenLog)
CodesRedeemed == Cardinality({ c \in 1..Len(codeLog) : codeLog[c].wins >= 1 })

\* C32: a session token the session check accepts was issued by an exchange
\* that redeemed a pairing code, one token for each redemption: the tokens
\* ever issued are as many as the codes redeemed, and never more than the
\* codes ever issued.
C32_TokensFromRedemptions ==
    /\ TokensIssued = CodesRedeemed
    /\ TokensIssued <= Len(codeLog)
    /\ \A i \in 1..Len(activeTokens) : activeTokens[i].token \in 1..TokensIssued
    /\ (resp.op = "home" /\ resp.status = 200) =>
          /\ resp.hdr.scheme = "Bearer"
          /\ resp.hdr.cred \in 1..TokensIssued

\* the code issued was redeemed and the session token of that redemption,
\* the only token there is, is accepted
C32_Witness ==
    /\ resp.op = "home"
    /\ resp.status = 200
    /\ resp.hdr = Bearer(1)
    /\ TokensIssued = 1
    /\ CodesRedeemed = 1
    /\ HasToken(activeTokens, 1)

\* the session tokens of act that have expired at time t, but for tok
OtherExpired(act, t, tok) ==
    { act[i].token : i \in { j \in 1..Len(act) : t > act[j].expiresAt } } \ {tok}

\* C33: a call of the session check with an expired token deletes the token
\* and answers invalid, and every call of the session check removes other
\* expired tokens from the session store: at least one where there is one,
\* and never more than PURGE_LIMIT (20).
C33_PurgeOnAccess ==
    [][ (resp'.op = "home" /\ resp'.status \in {200, 401}) =>
          LET tok == extractBearerToken(resp'.hdr)
              others == OtherExpired(activeTokens, now, tok)
              purged == { k \in others : ~HasToken(activeTokens', k) }
          IN  /\ (HasToken(activeTokens, tok) /\ now > ExpiryOf(activeTokens, tok)) =>
                     (resp'.status = 401 /\ ~HasToken(activeTokens', tok))
              /\ Cardinality(purged) <= PURGE_LIMIT
              /\ others # {} => purged # {} ]_vars

\* the expired token 2 was presented, answered 401 and deleted, and the
\* other expired tokens are all still in the session store
C33_Witness ==
    /\ resp.op = "home"
    /\ resp.status = 401
    /\ resp.hdr = Bearer(2)
    /\ ~HasToken(activeTokens, 2)
    /\ Cardinality(OtherExpired(activeTokens, now, 2)) > PURGE_LIMIT

\* the canonical directory whose entries the step read, <<>> when it read none
ReadBy(s) ==
    IF reqs[s].pc = "walk" /\ reqs'[s].pc = "walk"
          /\ Len(reqs'[s].st.trace) > Len(reqs[s].st.trace)
    THEN <<reqs'[s].st.trace[Len(reqs'[s].st.trace)]>>
    ELSE <<>>

\* C34: every directory whose entries the walk reads lies at most maxDepth
\* (5) levels below basePath, basePath being level 0, and the walk reads the
\* entries of a directory only while it holds fewer than maxResults results.
C34_WalkBounded ==
    [][ \A s \in Slots :
          ReadBy(s) # <<>> =>
             /\ Len(Rel(ReadBy(s)[1], realpath(fs, reqs[s].path))) <= maxDepth
             /\ Len(reqs[s].st.results) < maxResults ]_vars

\* the search of /e has read the directory at level maxDepth, found the file
\* in it and returned without reading the directories below, which are there
C34_Witness ==
    /\ resp.op = "searchFiles"
    /\ resp.raw = pE
    /\ fs = DeepFs
    /\ resp.trace[Len(resp.trace)] = DeepDir(maxDepth)
    /\ \E i \in 1..Len(resp.results) : resp.results[i].path = Child(DeepDir(maxDepth), <<"f">>)
    /\ DeepDir(maxDepth + 1) \in DOMAIN fs
    /\ Child(DeepDir(maxDepth + 1), <<"f">>) \in DOMAIN fs

\* C35: the GET /api/ls of the path that GET /api/home answers with passes
\* the containment check: its guard never answers 403.
C35_HomeListable ==
    [][ \A s \in Slots :
          (reqs[s].pc = "guard" /\ reqs[s].op = "ls"
              /\ reqs[s].path = homeOf(allowedPaths) /\ reqs'[s] # reqs[s]) =>
             resp'.status # 403 ]_vars

\* the root is /r/q, to be made below the link /r: /api/home answered /r/q
\* and the listing of /r/q is answered 403
C35_Witness ==
    /\ allowedPaths = <<pRQ>>
    /\ resp.op = "ls"
    /\ resp.raw = homeOf(allowedPaths)
    /\ resp.status = 403

\* the part of the tree a search can reach: what is not below a directory
\* that may not be read, and not below a directory inside a sealed one
Reachable(f) ==
    { p \in DOMAIN f :
        /\ \A a \in DOMAIN f :
              (f[a] = DeniedDir /\ a # p) => ~IsBelow(p, a)
        /\ \A a \in DOMAIN f :
              (f[a] = SealedDir /\ a # p /\ IsBelow(p, a)) => pathDirname(p) = a }
ReadableRest(f) == [p \in Reachable(f) |-> f[p]]

\* C36: a search of a tree that holds a directory that cannot be read and a
\* directory whose real path cannot be resolved returns, and what it returns
\* are the matches of the rest of the tree, each once; from a base that
\* cannot be read or resolved it returns no match.
C36_UnreadableSkipped ==
    [][ \A s \in Slots :
          (reqs[s].pc = "walk" /\ reqs'[s].pc = "idle") =>
             /\ resp'.op = "searchFiles"
             /\ { Rel(resp'.results[i].path, reqs[s].path) : i \in 1..Len(resp'.results) }
                   = (IF walkRealpath(fs, reqs[s].path) = Null THEN {}
                      ELSE Matches(ReadableRest(fs), reqs[s].path, reqs[s].q))
             /\ \A i, j \in 1..Len(resp'.results) :
                   resp'.results[i] = resp'.results[j] => i = j ]_vars

\* the search of /d for f has passed /d/s/x, which it may not read, and
\* /d/p/d, which it cannot resolve, and returned the matches around them
C36_Witness ==
    /\ resp.op = "searchFiles"
    /\ resp.raw = pD
    /\ resp.data = <<"f">>
    /\ fs[pDSX] = DeniedDir
    /\ fs[pDP] = SealedDir
    /\ { resp.results[i].path : i \in 1..Len(resp.results) }
          = {Child(pDP, <<"f">>), pDSF, pDSDF}
    /\ pDSX \notin { resp.trace[i] : i \in 1..Len(resp.trace) }

\* the children of directory dir that fs.stat cannot reach
StatFails(f, dir) == { n \in childNames(f, dir) : stat(f, Child(dir, n)) = NoNode }

\* C37: the listing of a directory with a child that fs.stat cannot reach
\* is answered 200; the child is listed with size 0 and mtime 0 and its own
\* type, and every other child is listed with the size and mtime of what it
\* leads to, one item each.
C37_StatFailureListed ==
    [][ \A s \in Slots :
          (/\ reqs[s].pc = "exec" /\ reqs[s].op = "ls" /\ reqs'[s].pc = "idle"
           /\ stat(fs, reqs[s].resolved).kind = "dir"
           /\ StatFails(fs, realpath(fs, reqs[s].resolved)) # {}) =>
             LET dir == realpath(fs, reqs[s].resolved)
                 items == resp'.results
             IN  /\ resp'.op = "ls"
                 /\ resp'.status = 200
                 /\ Len(items) = Cardinality(childNames(fs, dir))
                 /\ \A n \in childNames(fs, dir) :
                       \E i \in 1..Len(items) :
                          /\ items[i].name = n
                          /\ items[i].isSymlink = (fs[Child(dir, n)].kind = "link")
                          /\ IF n \in StatFails(fs, dir)
                             THEN items[i].size = 0 /\ items[i].mtime = 0
                             ELSE /\ items[i].mtime = 1
                                  /\ items[i].size =
                                       (IF stat(fs, Child(dir, n)).kind = "file"
                                        THEN byteLength(stat(fs, Child(dir, n)).data)
                                        ELSE 0) ]_vars

\* /d/s has been listed: its link z to itself is there with size 0 and
\* mtime 0, its file f with its 2 bytes
C37_Witness ==
    /\ resp.op = "ls"
    /\ resp.status = 200
    /\ resp.path = pDS
    /\ stat(fs, pDSZ) = NoNode
    /\ \E i, j \in 1..Len(resp.results) :
          /\ resp.results[i].name = <<"z">>
          /\ resp.results[i].isSymlink
          /\ resp.results[i].size = 0
          /\ resp.results[i].mtime = 0
          /\ resp.results[j].name = <<"f">>
          /\ resp.results[j].size = 2
          /\ resp.results[j].mtime = 1

\* C38: every file serveStaticAsset sends has its real path below the real
\* path of distRoot, and a request that resolves to a node outside of it is
\* answered 403.
C38_StaticInsideRoot ==
    [][ \A s \in Slots :
          (reqs[s].pc = "static" /\ reqs'[s].pc = "idle") =>
             LET root == realpath(fs, DIST_WEBAPP)
                 rel == IF reqs[s].path # <<>> /\ reqs[s].path[1] = SEP
                        THEN Tail(reqs[s].path) ELSE reqs[s].path
                 real == realpath(fs, pathResolveFrom(DIST_WEBAPP, rel))
             IN  /\ resp'.status = 200 => IsBelow(resp'.path, root)
                 /\ (real # Null /\ real # root /\ ~IsBelow(real, root)) =>
                       resp'.status = 403 ]_vars

\* the file /e/x asked for through the link /d/l has been refused
C38_Witness ==
    /\ resp.op = "static"
    /\ resp.raw = <<SEP, "l", SEP, "x">>
    /\ realpath(fs, pDLX) = pEX
    /\ resp.status = 403

\* the promises call() has returned
Calls == { i \in DOMAIN wsClient.calls : wsClient.calls[i].kind = "call" }

\* what the promises of call() obey at every moment: resolve or reject has
\* been called on each at most once, and exactly once on those that are
\* settled; a promise not yet settled is in the pending map with its timer
\* set, a settled one is not in the map; no two share an id
CallsSettledOnce ==
    /\ \A i \in Calls :
          LET c == wsClient.calls[i] IN
          /\ c.settles <= 1
          /\ (c.state = "pending") = (c.settles = 0)
          /\ c.state = "pending" => c.id \in wsClient.pending /\ c.timer
          /\ c.state # "pending" =>
                /\ c.id \notin wsClient.pending
                /\ c.by \in {"res", "timeout", "close", "Not connected"}
                /\ (c.by = "Not connected") = (c.id = 0)
          /\ c.by = "timeout" => c.state = "rejected" /\ now >= c.due
    /\ \A i, j \in DOMAIN wsClient.calls :
          (wsClient.calls[i].id = wsClient.calls[j].id /\ wsClient.calls[i].id # 0) => i = j

\* a settled promise stays as it is whatever arrives later, the timeout
\* rejects at the moment it is due, and a close leaves the pending map empty
CallsStaySettled ==
    [][ /\ \A i \in Calls :
             wsClient.calls[i].state # "pending" =>
                /\ wsClient'.calls[i].state = wsClient.calls[i].state
                /\ wsClient'.calls[i].by = wsClient.calls[i].by
                /\ wsClient'.calls[i].settles = wsClient.calls[i].settles
        /\ \A i \in Calls :
             (wsClient.calls[i].state = "pending" /\ wsClient'.calls[i].by = "timeout") =>
                now = wsClient.calls[i].due
        /\ wsClient'.last = "close" => wsClient'.pending = {} ]_vars

\* every promise of call() is settled in the end
CallPending(i) == IF i \in Calls THEN wsClient.calls[i].state = "pending" ELSE FALSE
CallsSettledAtLast ==
    \A i \in 1..(MaxCalls + MaxSockets) : CallPending(i) ~> ~CallPending(i)

\* C39: every promise call() returns is settled exactly once: rejected at
\* once with "Not connected" when the client holds no open socket, else by
\* the response frame with its id, by the timeout 15 seconds after the call,
\* or by a close of the connection, whichever comes first; a response that
\* arrives after that is ignored, and after a close the pending map is empty.
C39_SettledOnce == []CallsSettledOnce /\ CallsStaySettled /\ CallsSettledAtLast

\* C39 as stated: whatever settles a promise of call() is the response
\* frame, the timeout or a close
C39_SettledAsStated ==
    \A i \in Calls :
        wsClient.calls[i].state # "pending" =>
            wsClient.calls[i].by \in {"res", "timeout", "close"}

\* the response to a call has arrived after the call's timeout and has been
\* ignored, with the socket still open
C39_Witness ==
    /\ wsClient.last = "ignored"
    /\ \E i \in Calls :
          /\ wsClient.calls[i].by = "timeout"
          /\ wsClient.calls[i].settles = 1
          /\ wsClient.calls[i].id # 0
          /\ now >= RPC_TIMEOUT_MS
    /\ wsClient.ws # 0
    /\ wsClient.sockets[wsClient.ws] = "OPEN"

\* C40: what the search results element holds belongs to the search
\* started last, and the answer to an earlier search leaves it as it is.
C40_NewestSearchShown ==
    /\ [](fileList.searchResults.kind # "empty" =>
             fileList.searchResults.gen = fileList.searchGeneration)
    /\ [][ \A c \in fileList.inflight :
              (c \notin fileList'.inflight /\ c.gen # fileList.searchGeneration) =>
                 fileList'.searchResults = fileList.searchResults ]_vars

\* the second search has been answered and rendered, and then the answer to
\* the first has come and has been discarded
C40_Witness ==
    /\ fileList.last = "discarded"
    /\ fileList.searchGeneration = 2
    /\ fileList.searchResults.kind = "results"
    /\ fileList.searchResults.gen = 2
    /\ fileList.inflight = {}

====
